---- MODULE Spec2Model ----
(***************************************************************************)
(* Model of the solar-system viewer's simulation clock (TimeSystem,        *)
(* src/src/systems/timeSystem.ts) together with the DOM fields its         *)
(* handlers write.  Wall-clock time (Date.now()) is the variable `now`, in *)
(* milliseconds, advanced by the environment.                              *)
(*                                                                         *)
(* The variables op, ret, frozen, resumed and repaused are history         *)
(* variables: they record which operation ran last, what the last time     *)
(* read returned and the instants at which the clock was paused and        *)
(* resumed.  No operation of the program reads them.                       *)
(***************************************************************************)
EXTENDS Integers, Sequences, FiniteSets, TLC

VARIABLES
    now,                     \* Date.now()
    timeMode,                \* 'static' | 'animation'
    simulationStartTime,
    animationTimeScale,
    isPaused,
    pausedTime,
    currentTimeScaleOption,  \* 'hour' | 'day' | 'week'
    buttonClass,             \* #time-mode-button: className (text follows it)
    infoText,                \* #time-info: textContent
    selectorDisplay,         \* #time-scale-selector: style.display
    activeOption,            \* the .time-scale-option carrying class 'active'
    clockText,               \* #clock: textContent
    op,                      \* history: the operation that ran last
    ret,                     \* history: result of the last getSimulationTime()
    frozen,                  \* history: running instant captured at the last pause
    resumed,                 \* history: <<frozen instant, now>> at the last resume
    repaused,                \* history: <<frozen instant before the resume, delay>>
    mathCall,                \* the OrbitalMath call evaluated last: function and arguments
    mathResult,              \* the value that call returned
    celestialData,           \* the table of the data module, by body
    position,                \* mesh.position of the sun, the planets and the moon
    rotationY,               \* mesh.rotation.y as the updaters of SolarSystem wrote it
    keplerCalled,            \* history: bodies passed to a Kepler routine so far
    isCloseViewMode,         \* CloseViewSystem fields
    animating,
    currentTarget,
    savedCameraState,        \* the camera pose saved, NoSlot for null
    customCameraControl,
    controlsEnabled,         \* OrbitControls.enabled
    cameraAnimation,         \* the camera animation in flight: "none" | "enter" | "exit"
    animationElapsed,        \* Date.now() - startTime of that animation, in ms
    cameraProgress,          \* easeProgress of the last lerp of the camera, in 1/1000
    nullDereferenced,        \* history: a callback threw on a null currentTarget
    material,                \* mesh.material, by mesh
    geometry,                \* mesh.geometry, by mesh
    originalMaterial,        \* mesh.userData.originalMaterial, by mesh
    originalGeometry,        \* mesh.userData.originalGeometry, by mesh
    sunScale,                \* sun.scale
    originalSunScale,
    textureCache,            \* TextureSystem.textureCache: the textures loaded
    waiting,                 \* code suspended at `await loadTexture`, oldest first
    cycles,                  \* history: exits completed
    loadPendingAtExit,       \* history: the last exit began with a load pending
    loadingPromises,         \* TextureSystem.loadingPromises: promise by name, 0 for none
    loaderRequests,          \* requests the THREE.TextureLoader has not answered yet
    promisesMade,            \* the loading promises created so far
    textureEvent,            \* history: the last call or callback of the TextureSystem
    disposedWhileLoading     \* history: dispose() ran with a request outstanding

clockVars == <<timeMode, simulationStartTime, animationTimeScale, isPaused,
               pausedTime, currentTimeScaleOption>>
domVars   == <<buttonClass, infoText, selectorDisplay, activeOption>>
histVars  == <<frozen, resumed, repaused>>
timeVars  == <<now, clockVars, domVars, clockText, op, ret, histVars>>
mathVars  == <<mathCall, mathResult>>
sceneVars == <<celestialData, position, rotationY, keplerCalled>>
closeViewFields == <<isCloseViewMode, animating, currentTarget, savedCameraState,
                     cameraAnimation>>
cameraVars == <<animationElapsed, cameraProgress>>
meshVars  == <<customCameraControl, controlsEnabled, material, geometry,
               originalMaterial, originalGeometry, sunScale, originalSunScale,
               waiting, nullDereferenced>>
closeVars == <<closeViewFields, cameraVars, meshVars, textureCache, cycles,
               loadPendingAtExit>>
loaderVars == <<loadingPromises, loaderRequests, promisesMade, textureEvent,
                disposedWhileLoading>>
vars      == <<timeVars, mathVars, sceneVars, closeVars, loaderVars>>

\* What the handlers of the time system leave alone.
outsideTimeSystem == <<mathVars, sceneVars, closeVars, loaderVars>>
\* What a call of an OrbitalMath function leaves alone.
outsideOrbitalMath == <<timeVars, sceneVars, closeVars, loaderVars>>
\* What a frame of the animation loop leaves alone.
outsideScene == <<timeVars, mathVars, closeVars, loaderVars>>
\* What the close-view handlers leave alone.
outsideCloseView == <<timeVars, mathVars, sceneVars, loaderVars>>
\* What the texture system leaves alone.
outsideTextureSystem == <<timeVars, mathVars, sceneVars, closeViewFields, cameraVars,
                          meshVars, cycles, loadPendingAtExit>>

\* Largest wall-clock value explored (milliseconds after the first one).
MaxNow == 3

TimeScaleOptions == {"hour", "day", "week"}
NoInstant == -1

\* The three rates of setTimeScaleOption, in simulated ms per real second.
HourScale == 60 * 60 * 1000
DayScale  == 24 * 60 * 60 * 1000
WeekScale == 7 * 24 * 60 * 60 * 1000

TimeScaleOf_dayAsHour(option) ==
    CASE option = "hour" -> HourScale
      [] option = "day"  -> HourScale
      [] option = "week" -> WeekScale
\* The switch of setTimeScaleOption: the rate of an option.
TimeScaleOf(option) ==
    CASE option = "hour" -> HourScale
      [] option = "day"  -> DayScale
      [] option = "week" -> WeekScale

\* elapsed * scale / 1000 as the code writes it.  The product is taken in two
\* parts so that it stays inside TLC's 32-bit integers; the value is the same.
ScaledElapsed(elapsed, scale) ==
    elapsed * (scale \div 1000) + (elapsed * (scale % 1000)) \div 1000

\* getSimulationTime() with the paused branch forgetting the rate.
getSimulationTime_unscaledPause ==
    IF timeMode = "static"
    THEN now
    ELSE IF isPaused
         THEN simulationStartTime + pausedTime
         ELSE simulationStartTime
                + ScaledElapsed(now - simulationStartTime, animationTimeScale)

\* TimeSystem.getSimulationTime(), evaluated in the current state.
getSimulationTime ==
    IF timeMode = "static"
    THEN now
    ELSE IF isPaused
         THEN simulationStartTime + ScaledElapsed(pausedTime, animationTimeScale)
         ELSE simulationStartTime
                + ScaledElapsed(now - simulationStartTime, animationTimeScale)

\* TimeSystem.getTimeScaleDisplayText(): the unit shown of the rate.
getTimeScaleDisplayText(option) ==
    CASE option = "hour" -> "xiaoshi"
      [] option = "day"  -> "tian"
      [] option = "week" -> "zhou"
      [] OTHER           -> "zhou"

\* TimeSystem.updateTimeControlsUI() without its updateTimeScaleUI() call: the
\* button, the info line and the selector's visibility as a function of the
\* handler's resulting clock fields.
timeControlsUI ==
    IF timeMode' = "static"
    THEN /\ buttonClass' = ""
         /\ infoText' = <<"static">>
         /\ selectorDisplay' = "none"
    ELSE /\ buttonClass' = "animation-mode"
         /\ infoText' = <<"animation", getTimeScaleDisplayText(currentTimeScaleOption')>>
         /\ selectorDisplay' = "block"

\* TimeSystem.updateTimeScaleUI(): the option that ends up 'active'.
updateTimeScaleUI == activeOption' = currentTimeScaleOption'

\* TimeSystem.updateTimeControlsUI(), run at the end of a handler; it
\* refreshes the active option only in animation mode.
updateTimeControlsUI ==
    /\ timeControlsUI
    /\ IF timeMode' = "static" THEN UNCHANGED activeOption ELSE updateTimeScaleUI

\* toggleTimeMode() entering animation mode without re-anchoring.
toggleTimeMode_staleAnchor ==
    /\ IF timeMode = "static"
       THEN /\ timeMode' = "animation"
            /\ isPaused' = FALSE
            /\ pausedTime' = 0
            /\ UNCHANGED simulationStartTime
       ELSE /\ timeMode' = "static"
            /\ isPaused' = FALSE
            /\ pausedTime' = 0
            /\ UNCHANGED simulationStartTime
    /\ UNCHANGED <<animationTimeScale, currentTimeScaleOption>>
    /\ updateTimeControlsUI

\* toggleTimeMode() leaving animation mode without clearing the pause flag.
toggleTimeMode_keepPause ==
    /\ IF timeMode = "static"
       THEN /\ timeMode' = "animation"
            /\ simulationStartTime' = now
            /\ isPaused' = FALSE
            /\ pausedTime' = 0
       ELSE /\ timeMode' = "static"
            /\ pausedTime' = 0
            /\ UNCHANGED <<simulationStartTime, isPaused>>
    /\ UNCHANGED <<animationTimeScale, currentTimeScaleOption>>
    /\ updateTimeControlsUI

\* toggleTimeMode() leaving animation mode without resetting the paused offset.
toggleTimeMode_keepOffset ==
    /\ IF timeMode = "static"
       THEN /\ timeMode' = "animation"
            /\ simulationStartTime' = now
            /\ isPaused' = FALSE
            /\ pausedTime' = 0
       ELSE /\ timeMode' = "static"
            /\ isPaused' = FALSE
            /\ UNCHANGED <<simulationStartTime, pausedTime>>
    /\ UNCHANGED <<animationTimeScale, currentTimeScaleOption>>
    /\ updateTimeControlsUI

\* TimeSystem.toggleTimeMode()
toggleTimeMode ==
    /\ IF timeMode = "static"
       THEN /\ timeMode' = "animation"
            /\ simulationStartTime' = now
            /\ isPaused' = FALSE
            /\ pausedTime' = 0
       ELSE /\ timeMode' = "static"
            /\ isPaused' = FALSE
            /\ pausedTime' = 0
            /\ UNCHANGED simulationStartTime
    /\ UNCHANGED <<animationTimeScale, currentTimeScaleOption>>
    /\ updateTimeControlsUI

\* togglePause() storing the wall-clock time of the pause, not the elapsed time.
togglePause_storesNow ==
    IF timeMode # "animation"
    THEN UNCHANGED <<clockVars, domVars>>
    ELSE /\ IF isPaused
            THEN /\ simulationStartTime' = now - pausedTime
                 /\ isPaused' = FALSE
                 /\ UNCHANGED pausedTime
            ELSE /\ pausedTime' = now
                 /\ isPaused' = TRUE
                 /\ UNCHANGED simulationStartTime
         /\ UNCHANGED <<timeMode, animationTimeScale, currentTimeScaleOption>>
         /\ updateTimeControlsUI

\* togglePause() without the early return for static mode.
togglePause_noGuard ==
    /\ IF isPaused
       THEN /\ simulationStartTime' = now - pausedTime
            /\ isPaused' = FALSE
            /\ UNCHANGED pausedTime
       ELSE /\ pausedTime' = now - simulationStartTime
            /\ isPaused' = TRUE
            /\ UNCHANGED simulationStartTime
    /\ UNCHANGED <<timeMode, animationTimeScale, currentTimeScaleOption>>
    /\ updateTimeControlsUI

\* togglePause() resuming from a fresh anchor, the paused offset forgotten.
togglePause_resumeAtNow ==
    IF timeMode # "animation"
    THEN UNCHANGED <<clockVars, domVars>>
    ELSE /\ IF isPaused
            THEN /\ simulationStartTime' = now
                 /\ isPaused' = FALSE
                 /\ UNCHANGED pausedTime
            ELSE /\ pausedTime' = now - simulationStartTime
                 /\ isPaused' = TRUE
                 /\ UNCHANGED simulationStartTime
         /\ UNCHANGED <<timeMode, animationTimeScale, currentTimeScaleOption>>
         /\ updateTimeControlsUI

\* TimeSystem.togglePause()
togglePause ==
    IF timeMode # "animation"
    THEN UNCHANGED <<clockVars, domVars>>
    ELSE /\ IF isPaused
            THEN /\ simulationStartTime' = now - pausedTime
                 /\ isPaused' = FALSE
                 /\ UNCHANGED pausedTime
            ELSE /\ pausedTime' = now - simulationStartTime
                 /\ isPaused' = TRUE
                 /\ UNCHANGED simulationStartTime
         /\ UNCHANGED <<timeMode, animationTimeScale, currentTimeScaleOption>>
         /\ updateTimeControlsUI

\* setTimeScaleOption(option) re-anchoring in every state.
setTimeScale_reanchorAlways(option) ==
    /\ currentTimeScaleOption' = option
    /\ animationTimeScale' = TimeScaleOf(option)
    /\ simulationStartTime' = now
    /\ pausedTime' = 0
    /\ UNCHANGED <<timeMode, isPaused>>

\* TimeSystem.setTimeScaleOption(option): the clock fields it assigns.
setTimeScale(option) ==
    /\ currentTimeScaleOption' = option
    /\ animationTimeScale' = TimeScaleOf(option)
    /\ IF timeMode = "animation" /\ ~isPaused
       THEN /\ simulationStartTime' = now
            /\ pausedTime' = 0
       ELSE UNCHANGED <<simulationStartTime, pausedTime>>
    /\ UNCHANGED <<timeMode, isPaused>>

\* TimeSystem.setTimeScaleOption(option)
setTimeScaleOption(option) ==
    /\ setTimeScale(option)
    /\ updateTimeControlsUI

\* What updateClock() writes into #clock: wall-clock time to the second in
\* static mode, the simulated instant to the minute in animation mode.
clockDisplay ==
    IF timeMode = "static"
    THEN <<"static", now \div 1000>>
    ELSE <<"animation", getSimulationTime \div (60 * 1000)>>

----------------------------------------------------------------------------
(***************************************************************************)
(* OrbitalMath (src/src/utils/orbitalMath.ts).                             *)
(*                                                                         *)
(* Numbers.  The code computes in double precision.  Here a number is an   *)
(* integer count of 1/Scale, and a result that is NaN or infinite is the   *)
(* one value NonFinite, which every operation propagates.  Angles are      *)
(* radians unless a name says degrees; lengths are scene units; periods    *)
(* are days.  Instants are whole seconds since 1970 (the code's            *)
(* milliseconds / 1000), so that the epoch fits TLC's integers.            *)
(***************************************************************************)
Scale == 1000000
NonFinite == 2147483647

Abs(x) == IF x < 0 THEN -x ELSE x
Sgn(x) == IF x < 0 THEN -1 ELSE 1
IsFinite(x) == x # NonFinite

\* a * b for a, b >= 0, taken in parts of 1/1000 to stay inside 32 bits.
TimesAbs(a, b) ==
    LET ah == a \div 1000
        al == a % 1000
        bh == b \div 1000
        bl == b % 1000
    IN  ah * bh + (ah * bl + al * bh + (al * bl) \div 1000) \div 1000

\* a * b
Times(a, b) ==
    IF a = NonFinite \/ b = NonFinite
    THEN NonFinite
    ELSE Sgn(a) * Sgn(b) * TimesAbs(Abs(a), Abs(b))

\* Largest divisor the long division below takes without scaling it down.
MaxDivisor == 200000000

RECURSIVE OverDigits(_, _, _)
\* n decimal digits of r / b, for 0 <= r < b.
OverDigits(r, b, n) ==
    IF n = 0
    THEN 0
    ELSE LET d == (r * 10) \div b
             pow == CASE n = 1 -> 1 [] n = 2 -> 10 [] n = 3 -> 100
                      [] n = 4 -> 1000 [] n = 5 -> 10000 [] n = 6 -> 100000
         IN  d * pow + OverDigits((r * 10) % b, b, n - 1)

RECURSIVE OverAbs(_, _)
\* a / b for a >= 0, b > 0: the quotient of the two numbers, in 1/Scale.
OverAbs(a, b) ==
    IF b > MaxDivisor
    THEN OverAbs(a \div 10, b \div 10)
    ELSE (a \div b) * Scale + OverDigits(a % b, b, 6)

\* a / b; a division by zero gives NaN or an infinity.
Over(a, b) ==
    IF a = NonFinite \/ b = NonFinite \/ b = 0
    THEN NonFinite
    ELSE Sgn(a) * Sgn(b) * OverAbs(Abs(a), Abs(b))

\* a + b and a - b
Plus(a, b) == IF a = NonFinite \/ b = NonFinite THEN NonFinite ELSE a + b
Minus(a, b) == IF a = NonFinite \/ b = NonFinite THEN NonFinite ELSE a - b
Neg(a) == IF a = NonFinite THEN NonFinite ELSE -a

\* Math.PI and the whole numbers the code multiplies and divides by.
MathPI == 3141593
TwoPi == 2 * MathPI
HalfPi == MathPI \div 2
Num(n) == n * Scale

\* sin x for |x| <= pi/2, by its Taylor polynomial up to x^11.
SinSeries(x) ==
    LET x2 == Times(x, x)
        t5 == Scale - x2 \div 110
        t4 == Scale - Times(x2, t5) \div 72
        t3 == Scale - Times(x2, t4) \div 42
        t2 == Scale - Times(x2, t3) \div 20
        t1 == Scale - Times(x2, t2) \div 6
    IN  Times(x, t1)

\* Math.sin
MathSin(x) ==
    IF x = NonFinite
    THEN NonFinite
    ELSE LET r0 == x % TwoPi
             r1 == IF r0 > MathPI THEN r0 - TwoPi ELSE r0
             r2 == IF r1 > HalfPi THEN MathPI - r1
                   ELSE IF r1 < -HalfPi THEN -MathPI - r1 ELSE r1
         IN  SinSeries(r2)

\* Math.cos
MathCos(x) == IF x = NonFinite THEN NonFinite ELSE MathSin(x + HalfPi)

RECURSIVE SqrtIter(_, _, _)
\* n Newton steps y <- (y + x / y) / 2 towards the square root of x.
SqrtIter(x, y, n) ==
    IF n = 0 \/ y = 0
    THEN y
    ELSE SqrtIter(x, (y + Over(x, y)) \div 2, n - 1)

\* Math.sqrt; the root of a negative number is NaN.
MathSqrt(x) ==
    IF x = NonFinite \/ x < 0
    THEN NonFinite
    ELSE IF x = 0 THEN 0
         ELSE SqrtIter(x, IF x < Scale THEN Scale ELSE x, 12)

\* atan t for |t| <= tan(pi/16), by its Taylor polynomial up to t^9.
AtanSeries(t) ==
    LET t2 == Times(t, t)
        u4 == Scale \div 9
        u3 == Scale \div 7 - Times(t2, u4)
        u2 == Scale \div 5 - Times(t2, u3)
        u1 == Scale \div 3 - Times(t2, u2)
        u0 == Scale - Times(t2, u1)
    IN  Times(t, u0)

\* tan(a/2) from t = tan a.
HalfAngleTan(t) == Over(t, Scale + MathSqrt(Scale + Times(t, t)))

\* atan t for |t| <= 1.
AtanUnit(t) == 4 * AtanSeries(HalfAngleTan(HalfAngleTan(t)))

\* Math.atan2
MathAtan2(y, x) ==
    IF y = NonFinite \/ x = NonFinite
    THEN NonFinite
    ELSE IF x = 0 /\ y = 0
         THEN 0
         ELSE IF Abs(y) <= Abs(x)
              THEN LET a == AtanUnit(Over(y, x))
                   IN  IF x > 0 THEN a
                       ELSE IF y >= 0 THEN a + MathPI ELSE a - MathPI
              ELSE LET a == AtanUnit(Over(x, y))
                   IN  (IF y > 0 THEN HalfPi ELSE -HalfPi) - a

\* Math.abs(x) < 1e-8.  No comparison with NaN or an infinity is true; 1e-8 is
\* a hundredth of 1/Scale.
LessThan1eMinus8(x) ==
    /\ IsFinite(x)
    /\ Abs(x) < Scale
    /\ Abs(x) * 100 < 1

\* J2000_EPOCH, 2000-01-01T12:00:00Z, in seconds.
J2000_EPOCH == 946728000
SecondsPerDay == 60 * 60 * 24

\* scaleFactors.distance
DistanceScale == Num(10)

\* data.field || 0
OrZero(data, field) == IF field \in DOMAIN data THEN data[field] ELSE 0

\* degrees * Math.PI / 180
Radians(degrees) == Over(Times(degrees, MathPI), Num(180))

\* (time - J2000_EPOCH) / (1000 * 60 * 60 * 24)
DaysSinceJ2000(time) == Over(time - J2000_EPOCH, SecondsPerDay)

\* Lines 29-35 of calculatePlanetPosition: the mean anomaly at `time`.
MeanAnomaly(data, time) ==
    LET meanLongitudeAtEpoch == Radians(OrZero(data, "meanLongitude"))
        longitudePerihelion == Radians(OrZero(data, "longitudePerihelion"))
        meanMotion == Over(TwoPi, data.orbitalPeriod)
        meanLongitude == Plus(meanLongitudeAtEpoch,
                              Times(meanMotion, DaysSinceJ2000(time)))
    IN  Minus(meanLongitude, longitudePerihelion)

\* Iteration cap of the Kepler loops.
KeplerIterations == 10

\* One Newton step of the Kepler loop: deltaE.
KeplerDelta(eccentricity, meanAnomaly, eccentricAnomaly) ==
    Over(Minus(Minus(eccentricAnomaly,
                     Times(eccentricity, MathSin(eccentricAnomaly))),
               meanAnomaly),
         Minus(Scale, Times(eccentricity, MathCos(eccentricAnomaly))))

KeplerLoopContinues_offByOne(i) == i <= KeplerIterations
\* The loop condition `i < 10` of the Kepler for loop.
KeplerLoopContinues(i) == i < KeplerIterations

RECURSIVE KeplerLoop(_, _, _, _, _)
\* The for loop of calculatePlanetPosition from index i on, where lastDelta is
\* the deltaE of the pass before: the final eccentricAnomaly, the number of
\* passes made and the deltaE of the last pass.
KeplerLoop(eccentricity, meanAnomaly, eccentricAnomaly, i, lastDelta) ==
    IF ~KeplerLoopContinues(i)
    THEN [eccentricAnomaly |-> eccentricAnomaly, passes |-> i, deltaE |-> lastDelta]
    ELSE LET deltaE == KeplerDelta(eccentricity, meanAnomaly, eccentricAnomaly)
             next == Minus(eccentricAnomaly, deltaE)
         IN  IF LessThan1eMinus8(deltaE)
             THEN [eccentricAnomaly |-> next, passes |-> i + 1, deltaE |-> deltaE]
             ELSE KeplerLoop(eccentricity, meanAnomaly, next, i + 1, deltaE)

\* Lines 47-50: the true anomaly of an eccentric anomaly.
TrueAnomaly(eccentricity, eccentricAnomaly) ==
    Times(Num(2),
          MathAtan2(Times(MathSqrt(Scale + eccentricity),
                          MathSin(Over(eccentricAnomaly, Num(2)))),
                    Times(MathSqrt(Scale - eccentricity),
                          MathCos(Over(eccentricAnomaly, Num(2))))))

\* Lines 53-71 of calculatePlanetPosition: radius, orientation and the
\* Vector3(x, z, y) returned, from the solved eccentric anomaly.
PlanetPositionAt(data, eccentricAnomaly) ==
    LET semiMajorAxis == Times(OrZero(data, "semiMajorAxis"), DistanceScale)
        eccentricity == OrZero(data, "eccentricity")
        inclination == Radians(OrZero(data, "inclination"))
        longitudePerihelion == Radians(OrZero(data, "longitudePerihelion"))
        longitudeNode == Radians(OrZero(data, "longitudeNode"))
        trueAnomaly == TrueAnomaly(eccentricity, eccentricAnomaly)
        radius == Times(semiMajorAxis,
                        Minus(Scale, Times(eccentricity, MathCos(eccentricAnomaly))))
        argumentPerihelion == Minus(longitudePerihelion, longitudeNode)
        u == Plus(trueAnomaly, argumentPerihelion)
        cosU == MathCos(u)
        sinU == MathSin(u)
        cosI == MathCos(inclination)
        sinI == MathSin(inclination)
        cosO == MathCos(longitudeNode)
        sinO == MathSin(longitudeNode)
        x == Times(radius, Minus(Times(cosO, cosU), Times(Times(sinO, sinU), cosI)))
        y == Times(radius, Plus(Times(sinO, cosU), Times(Times(cosO, sinU), cosI)))
        z == Times(radius, Times(sinU, sinI))
    IN  <<x, z, y>>

\* OrbitalMath.calculatePlanetPosition(data, time)
calculatePlanetPosition(data, time) ==
    LET meanAnomaly == MeanAnomaly(data, time)
        solved == KeplerLoop(OrZero(data, "eccentricity"), meanAnomaly, meanAnomaly,
                             0, NonFinite)
    IN  PlanetPositionAt(data, solved.eccentricAnomaly)

calculateRotationAngle_noAbs(data, time) ==
    LET daysSinceJ2000 == DaysSinceJ2000(time)
        rotationAngle == Times(Times(Over(daysSinceJ2000, data.rotationPeriod),
                                     Num(2)),
                               MathPI)
    IN  IF data.rotationPeriod > 0 THEN rotationAngle ELSE Neg(rotationAngle)
\* OrbitalMath.calculateRotationAngle(data, time)
calculateRotationAngle(data, time) ==
    LET daysSinceJ2000 == DaysSinceJ2000(time)
        rotationAngle == Times(Times(Over(daysSinceJ2000, Abs(data.rotationPeriod)),
                                     Num(2)),
                               MathPI)
    IN  IF data.rotationPeriod > 0 THEN rotationAngle ELSE Neg(rotationAngle)

\* The display multiplier of the moon's orbit in calculateMoonPosition.
MoonDistanceFactor == Num(45)

RECURSIVE MoonKeplerLoop(_, _, _, _, _)
\* The for loop of calculateMoonPosition, as KeplerLoop.
MoonKeplerLoop(eccentricity, meanAnomaly, eccentricAnomaly, i, lastDelta) ==
    IF ~(i < KeplerIterations)
    THEN [eccentricAnomaly |-> eccentricAnomaly, passes |-> i, deltaE |-> lastDelta]
    ELSE LET deltaE ==
                 Over(Minus(Minus(eccentricAnomaly,
                                  Times(eccentricity, MathSin(eccentricAnomaly))),
                            meanAnomaly),
                      Minus(Scale, Times(eccentricity, MathCos(eccentricAnomaly))))
             next == Minus(eccentricAnomaly, deltaE)
         IN  IF LessThan1eMinus8(deltaE)
             THEN [eccentricAnomaly |-> next, passes |-> i + 1, deltaE |-> deltaE]
             ELSE MoonKeplerLoop(eccentricity, meanAnomaly, next, i + 1, deltaE)

MoonAbsolutePosition_earthAxesSwapped(earthPosition, moonRelativeX, moonRelativeY, moonRelativeZ) ==
    << Plus(earthPosition[1], moonRelativeX),
       Plus(earthPosition[3], moonRelativeY),
       Plus(earthPosition[2], moonRelativeZ) >>
\* The vector calculateMoonPosition returns: earth position plus the moon's
\* relative position, component by component.
MoonAbsolutePosition(earthPosition, moonRelativeX, moonRelativeY, moonRelativeZ) ==
    << Plus(earthPosition[1], moonRelativeX),
       Plus(earthPosition[2], moonRelativeY),
       Plus(earthPosition[3], moonRelativeZ) >>

\* Lines 105-115 of calculateMoonPosition: the moon's mean anomaly at `time`.
MoonMeanAnomaly(moonData, time) ==
    LET meanLongitudeAtEpoch == Radians(OrZero(moonData, "meanLongitude"))
        longitudePerihelion == Radians(OrZero(moonData, "longitudePerihelion"))
        meanMotion == Over(TwoPi, moonData.orbitalPeriod)
        meanLongitude == Plus(meanLongitudeAtEpoch,
                              Times(meanMotion, DaysSinceJ2000(time)))
    IN  Minus(meanLongitude, longitudePerihelion)

\* OrbitalMath.calculateMoonPosition(moonData, earthPosition, time);
\* a position is <<x, y, z>>.
calculateMoonPosition(moonData, earthPosition, time) ==
    LET moonDistance == Times(Times(OrZero(moonData, "semiMajorAxis"), DistanceScale),
                              MoonDistanceFactor)
        eccentricity == OrZero(moonData, "eccentricity")
        inclination == Radians(OrZero(moonData, "inclination"))
        meanAnomaly == MoonMeanAnomaly(moonData, time)
        eccentricAnomaly ==
            MoonKeplerLoop(eccentricity, meanAnomaly, meanAnomaly, 0, NonFinite).eccentricAnomaly
        trueAnomaly == TrueAnomaly(eccentricity, eccentricAnomaly)
        radius == Times(moonDistance,
                        Minus(Scale, Times(eccentricity, MathCos(eccentricAnomaly))))
        moonRelativeX == Times(radius, MathCos(trueAnomaly))
        moonRelativeZ == Times(Times(radius, MathSin(trueAnomaly)), MathCos(inclination))
        moonRelativeY == Times(Times(radius, MathSin(trueAnomaly)), MathSin(inclination))
    IN  MoonAbsolutePosition(earthPosition, moonRelativeX, moonRelativeY, moonRelativeZ)

OrbitPathRadius_linear(semiMajorAxis, eccentricity, trueAnomaly) ==
    Over(Times(semiMajorAxis, Minus(Scale, eccentricity)),
         Plus(Scale, Times(eccentricity, MathCos(trueAnomaly))))
\* The radius of generateOrbitPath: a * (1 - e * e) / (1 + e * cos(nu)).
OrbitPathRadius(semiMajorAxis, eccentricity, trueAnomaly) ==
    Over(Times(semiMajorAxis, Minus(Scale, Times(eccentricity, eccentricity))),
         Plus(Scale, Times(eccentricity, MathCos(trueAnomaly))))

\* Lines 170-191 of generateOrbitPath: the point pushed for one true anomaly.
OrbitPathPoint(data, trueAnomaly) ==
    LET semiMajorAxis == Times(OrZero(data, "semiMajorAxis"), DistanceScale)
        eccentricity == OrZero(data, "eccentricity")
        inclination == Radians(OrZero(data, "inclination"))
        longitudePerihelion == Radians(OrZero(data, "longitudePerihelion"))
        longitudeNode == Radians(OrZero(data, "longitudeNode"))
        argumentPerihelion == Minus(longitudePerihelion, longitudeNode)
        radius == OrbitPathRadius(semiMajorAxis, eccentricity, trueAnomaly)
        u == Plus(trueAnomaly, argumentPerihelion)
        cosU == MathCos(u)
        sinU == MathSin(u)
        cosI == MathCos(inclination)
        sinI == MathSin(inclination)
        cosO == MathCos(longitudeNode)
        sinO == MathSin(longitudeNode)
        x == Times(radius, Minus(Times(cosO, cosU), Times(Times(sinO, sinU), cosI)))
        y == Times(radius, Plus(Times(sinO, cosU), Times(Times(cosO, sinU), cosI)))
        z == Times(radius, Times(sinU, sinI))
    IN  <<x, z, y>>

\* The true anomaly of sample i: (i / segments) * 2 * Math.PI.
SampleAnomaly(i, segments) ==
    Times(Times(Over(Num(i), Num(segments)), Num(2)), MathPI)

OrbitPathLoopContinues_exclusive(i, segments) == i < segments
\* The loop condition `i <= segments` of generateOrbitPath.
OrbitPathLoopContinues(i, segments) == i <= segments

RECURSIVE OrbitPathLoop(_, _, _, _)
\* The for loop of generateOrbitPath from index i on, `points` holding the
\* points pushed so far.
OrbitPathLoop(data, segments, i, points) ==
    IF ~OrbitPathLoopContinues(i, segments)
    THEN points
    ELSE OrbitPathLoop(data, segments, i + 1,
                       Append(points, OrbitPathPoint(data, SampleAnomaly(i, segments))))

\* OrbitalMath.generateOrbitPath(data, segments)
generateOrbitPath(data, segments) == OrbitPathLoop(data, segments, 0, <<>>)

(***************************************************************************)
(* Arguments the functions are applied to.  The four bodies carry the      *)
(* elements of celestialData rounded to 1/Scale; the probes are bodies of  *)
(* the same shape with chosen eccentricity, mean longitude and period.     *)
(***************************************************************************)
Mercury ==
    [name |-> "mercury", semiMajorAxis |-> 387099, eccentricity |-> 205636,
     inclination |-> 7004979, meanLongitude |-> 252250324,
     longitudePerihelion |-> 77457796, longitudeNode |-> 48330766,
     orbitalPeriod |-> 87969100, rotationPeriod |-> 58646200]
Venus ==
    [name |-> "venus", semiMajorAxis |-> 723336, eccentricity |-> 6777,
     inclination |-> 3394676, meanLongitude |-> 181979100,
     longitudePerihelion |-> 131602467, longitudeNode |-> 76679843,
     orbitalPeriod |-> 224700800, rotationPeriod |-> -243022600]
Earth ==
    [name |-> "earth", semiMajorAxis |-> 1000003, eccentricity |-> 16711,
     inclination |-> -15, meanLongitude |-> 100464572,
     longitudePerihelion |-> 102937682, longitudeNode |-> 0,
     orbitalPeriod |-> 365256360, rotationPeriod |-> 1000000]
Moon ==
    [name |-> "moon", semiMajorAxis |-> 2570, eccentricity |-> 54900,
     inclination |-> 5145000, meanLongitude |-> 218316448,
     longitudePerihelion |-> 83353247, longitudeNode |-> 125122887,
     orbitalPeriod |-> 27321661, rotationPeriod |-> 27321661]

\* A body at 1 AU whose mean anomaly at the epoch is meanLongitude degrees.
Probe(eccentricity, meanLongitude, orbitalPeriod) ==
    [name |-> "probe", semiMajorAxis |-> Scale, eccentricity |-> eccentricity,
     inclination |-> Num(30), meanLongitude |-> meanLongitude,
     longitudePerihelion |-> 0, longitudeNode |-> Num(40),
     orbitalPeriod |-> orbitalPeriod, rotationPeriod |-> Scale]

\* Mean longitudes of the probes, in degrees: 0, 0.17 rad, 1 rad and 3 rad.
ProbeLongitudes == {0, 9740283, 57295780, 171887339}
\* Well-formed probes: eccentricity 0, 0.5 and 0.9, period 100 days.
WellFormedProbes ==
    {Probe(e, l, Num(100)) : e \in {0, 500000, 900000}, l \in ProbeLongitudes}
\* A probe with eccentricity 0.98 and mean anomaly 0.17 rad at the epoch.
NearParabolicProbe == Probe(980000, 9740283, Num(100))
\* Malformed probes: eccentricity 1, 1.5, 2 and -0.5, and a zero orbital period.
MalformedProbes ==
    {Probe(Num(1), 0, Num(100)), Probe(1500000, 57295780, Num(100)),
     Probe(Num(2), 171887339, Num(100)), Probe(-500000, 57295780, Num(100)),
     Probe(500000, 57295780, 0)}

DayOffsets == {0, 1, 10, 100, 243, 400}
\* Instants: the epoch plus a whole number of days, and the same plus 4321 s.
TimeInputs ==
    {J2000_EPOCH + d * SecondsPerDay + s : d \in DayOffsets, s \in {0, 4321}}

PlanetInputs ==
    [data : {Mercury, Venus, Earth} \cup WellFormedProbes, time : TimeInputs]
    \cup [data : {NearParabolicProbe} \cup MalformedProbes, time : {J2000_EPOCH}]

PrimaryPositions ==
    {<<0, 0, 0>>, <<Num(10), 0, 0>>, <<-1780485, 0, 9670538>>, <<369452, -7, -10157311>>}
MoonInputs ==
    [data : {Moon}, earthPosition : PrimaryPositions, time : TimeInputs]
    \cup [data : MalformedProbes, earthPosition : {<<Num(10), 0, 0>>},
          time : {J2000_EPOCH}]

Spinner(rotationPeriod) == [name |-> "spinner", rotationPeriod |-> rotationPeriod]
\* Rotation periods, in days: those of Earth, Mercury, Venus and Uranus, and
\* half a day and 243 days, each with both signs.
RotationPeriods ==
    {Num(1), -Num(1), 58646200, -58646200, 243022600, -243022600,
     718330, -718330, Num(243), -Num(243), 500000, -500000}
\* Every period at the epoch and 12, 24 and 36 hours later; the long periods
\* 243 days later as well.
RotationInputs ==
    [data : {Spinner(p) : p \in RotationPeriods},
     time : {J2000_EPOCH + h * (SecondsPerDay \div 2) : h \in 0 .. 3}]
    \cup [data : {Spinner(p) : p \in {Num(243), -Num(243), 243022600, -243022600}},
          time : {J2000_EPOCH + 243 * SecondsPerDay}]

\* Largest segment count generateOrbitPath is applied to.
MaxSegments == 4
OrbitPathInputs ==
    [data : {Mercury, Venus, Earth} \cup WellFormedProbes, segments : 1 .. MaxSegments]

\* No function has been called.
InitOrbitalMath ==
    /\ mathCall = [fn |-> "none"]
    /\ mathResult = <<>>

\* Every call the functions are checked on: the function and its arguments.
MathCalls ==
    {[fn |-> "calculatePlanetPosition", data |-> in.data, time |-> in.time] :
        in \in PlanetInputs}
    \cup {[fn |-> "calculateMoonPosition", data |-> in.data,
           earthPosition |-> in.earthPosition, time |-> in.time] : in \in MoonInputs}
    \cup {[fn |-> "calculateRotationAngle", data |-> in.data, time |-> in.time] :
              in \in RotationInputs}
    \cup {[fn |-> "generateOrbitPath", data |-> in.data, segments |-> in.segments] :
              in \in OrbitPathInputs}

\* mathResult holds <<>> until the function of mathCall has returned, then
\* the value returned (a rotation angle as a one-element tuple).
Returned == mathResult # <<>>

CalculatePlanetPosition ==
    /\ mathCall.fn = "calculatePlanetPosition"
    /\ ~Returned
    /\ mathResult' = calculatePlanetPosition(mathCall.data, mathCall.time)
    /\ UNCHANGED <<mathCall, outsideOrbitalMath>>

CalculateMoonPosition ==
    /\ mathCall.fn = "calculateMoonPosition"
    /\ ~Returned
    /\ mathResult' = calculateMoonPosition(mathCall.data, mathCall.earthPosition,
                                           mathCall.time)
    /\ UNCHANGED <<mathCall, outsideOrbitalMath>>

CalculateRotationAngle ==
    /\ mathCall.fn = "calculateRotationAngle"
    /\ ~Returned
    /\ mathResult' = <<calculateRotationAngle(mathCall.data, mathCall.time)>>
    /\ UNCHANGED <<mathCall, outsideOrbitalMath>>

GenerateOrbitPath ==
    /\ mathCall.fn = "generateOrbitPath"
    /\ ~Returned
    /\ mathResult' = generateOrbitPath(mathCall.data, mathCall.segments)
    /\ UNCHANGED <<mathCall, outsideOrbitalMath>>

(***************************************************************************)
(* The scene: CelestialObjects builds one mesh per body from the table of  *)
(* the data module, and every frame SolarSystem.animate moves and turns    *)
(* them.  The model carries the sun, the planets out to Earth and the      *)
(* moon; the periods of the outer planets exceed the range of Scale.  The  *)
(* asteroid belt, the distance labels and the renderer do not touch the    *)
(* state modelled here.                                                    *)
(***************************************************************************)
Sun ==
    [name |-> "sun", orbitalPeriod |-> 0, rotationPeriod |-> 25400000,
     eccentricity |-> 0]

\* The table as the data module declares it.
DeclaredData ==
    [sun |-> Sun, mercury |-> Mercury, venus |-> Venus, earth |-> Earth,
     moon |-> Moon]

\* The same table with one body's elements malformed: an eccentricity of
\* 1.5, of 1 and below 0, and a zero orbital period.
MalformedData ==
    {[DeclaredData EXCEPT !.mercury.eccentricity = 1500000],
     [DeclaredData EXCEPT !.moon.eccentricity = Num(1)],
     [DeclaredData EXCEPT !.earth.eccentricity = -500000],
     [DeclaredData EXCEPT !.venus.orbitalPeriod = 0]}

Bodies == {"sun", "mercury", "venus", "earth", "moon"}
Origin == <<0, 0, 0>>

planetNames_withSun == <<"sun", "mercury", "venus", "earth">>
\* The planetNames of createPlanets, the bodies of CelestialObjects.planets.
planetNames == <<"mercury", "venus", "earth">>

Planets == {planetNames[k] : k \in DOMAIN planetNames}

\* The multiplier of the moon's distance in createMoon.
InitialMoonDistanceFactor == Num(30)

\* CelestialObjects constructor: createSun leaves the sun's mesh where
\* THREE.Mesh puts it, createPlanets and createMoon place theirs on the x
\* axis.  Each mesh keeps its row of the table as userData.
CreateCelestialObjects ==
    /\ position =
          [b \in Bodies |->
             IF b \in Planets
             THEN <<Times(OrZero(celestialData[b], "semiMajorAxis"), DistanceScale), 0, 0>>
             ELSE IF b = "moon"
             THEN <<Plus(Times(OrZero(celestialData.earth, "semiMajorAxis"), DistanceScale),
                         Times(Times(OrZero(celestialData.moon, "semiMajorAxis"),
                                     DistanceScale),
                               InitialMoonDistanceFactor)), 0, 0>>
             ELSE Origin]
    /\ rotationY = [b \in Bodies |-> 0]
    /\ keplerCalled = {}

\* The instant at which the wall clock of the model reads 0, in seconds.
ClockOrigin == J2000_EPOCH
\* The instant, in seconds, of a simulated time in milliseconds.
FrameInstant(currentTime) == ClockOrigin + currentTime \div 1000

\* updateSun: (daysSinceEpoch / rotationPeriod) * 2 * Math.PI, in 1/1000 rad
\* (the angle exceeds the range of Scale).
SunRotationY(time) ==
    LET period == celestialData.sun.rotationPeriod \div 1000
        daysSinceEpoch == (time \div SecondsPerDay) * 1000
                            + ((time % SecondsPerDay) * 1000) \div SecondsPerDay
        turns == (daysSinceEpoch \div period) * 1000
                   + ((daysSinceEpoch % period) * 1000) \div period
    IN  TimesAbs(turns, TwoPi)

\* getEarthPlanet(): the planet named Earth, if there is one.
HasEarthPlanet == "earth" \in Planets

\* animate() with updateMoon running before updatePlanets: the moon is placed
\* around the Earth position of the frame before.
Animate_moonBeforePlanets ==
    LET time == FrameInstant(getSimulationTime)
        planetPosition(b) == calculatePlanetPosition(celestialData[b], time)
    IN  /\ position' =
              [b \in Bodies |->
                 IF b \in Planets
                 THEN planetPosition(b)
                 ELSE IF b = "moon" /\ HasEarthPlanet
                 THEN calculateMoonPosition(celestialData.moon,
                                            position["earth"], time)
                 ELSE position[b]]
        /\ rotationY' =
              [b \in Bodies |->
                 IF isCloseViewMode
                 THEN rotationY[b]
                 ELSE IF b \in Planets \/ (b = "moon" /\ HasEarthPlanet)
                 THEN calculateRotationAngle(celestialData[b], time)
                 ELSE IF b = "sun"
                 THEN SunRotationY(time)
                 ELSE rotationY[b]]
        /\ keplerCalled' =
              keplerCalled \cup Planets
                \cup (IF HasEarthPlanet THEN {"moon"} ELSE {})
        /\ UNCHANGED celestialData
        /\ UNCHANGED outsideScene

\* SolarSystem.animate(): one frame.  It reads the simulated time once, then
\* updatePlanets, updateMoon (from the Earth position just written) and
\* updateSun; none of them turns a mesh in close-view mode, where
\* closeViewSystem.update() moves the camera and hands the target's rotation
\* to the texture system.
Animate ==
    LET time == FrameInstant(getSimulationTime)
        planetPosition(b) == calculatePlanetPosition(celestialData[b], time)
    IN  /\ position' =
              [b \in Bodies |->
                 IF b \in Planets
                 THEN planetPosition(b)
                 ELSE IF b = "moon" /\ HasEarthPlanet
                 THEN calculateMoonPosition(celestialData.moon,
                                            planetPosition("earth"), time)
                 ELSE position[b]]
        /\ rotationY' =
              [b \in Bodies |->
                 IF isCloseViewMode
                 THEN rotationY[b]
                 ELSE IF b \in Planets \/ (b = "moon" /\ HasEarthPlanet)
                 THEN calculateRotationAngle(celestialData[b], time)
                 ELSE IF b = "sun"
                 THEN SunRotationY(time)
                 ELSE rotationY[b]]
        /\ keplerCalled' =
              keplerCalled \cup Planets
                \cup (IF HasEarthPlanet THEN {"moon"} ELSE {})
        /\ UNCHANGED celestialData
        /\ UNCHANGED outsideScene

(***************************************************************************)
(* Close view (CloseViewSystem as SolarSystem constructs it, with the      *)
(* texture system).  A click on a mesh starts a camera animation towards   *)
(* it; when the animation ends the mesh gets a textured material and a     *)
(* high-resolution geometry, the originals being kept in userData; Escape  *)
(* starts the animation back, at whose end they are restored.  Textures    *)
(* load asynchronously, so the code after `await loadTexture` runs when    *)
(* the loader calls back.  Camera pose, controls flags, UI elements and    *)
(* the rotation the texture system gives a mesh are not part of the state. *)
(***************************************************************************)
\* Largest number of enter/exit cycles explored.
MaxCycles == 2

NoTarget == "none"
NoSlot == "none"
\* No camera state saved (savedCameraState = null).
NoCameraState == <<>>

\* The meshes getClickableObjects offers; Jupiter stands for the planets
\* without a texture file.
Meshes == Bodies \cup {"jupiter"}

\* TextureSystem.hasTexture
hasTexture(b) == b \in {"earth", "moon", "mars", "venus", "mercury", "sun"}

EarthMoonSystem == {"earth", "moon"}
\* The other body of the Earth-Moon system.
Companion(b) == IF b = "earth" THEN "moon" ELSE "earth"

\* material instanceof THREE.MeshLambertMaterial: the planets' and the moon's
\* own material and every textured one; the sun's own and the close-view
\* fallback are MeshBasicMaterial.
IsLambert(b, m) == m = "textured" \/ (m = "original" /\ b # "sun")

\* The part of the state the code below rewrites, as one record.
MeshState ==
    [customCameraControl |-> customCameraControl,
     controlsEnabled |-> controlsEnabled, nullDereferenced |-> nullDereferenced,
     material |-> material, geometry |-> geometry, originalMaterial |-> originalMaterial,
     originalGeometry |-> originalGeometry, sunScale |-> sunScale,
     originalSunScale |-> originalSunScale, waiting |-> waiting]

\* The state after the code: s is the record it ends with.
BecomesMeshState(s) ==
    /\ customCameraControl' = s.customCameraControl
    /\ controlsEnabled' = s.controlsEnabled
    /\ nullDereferenced' = s.nullDereferenced
    /\ material' = s.material
    /\ geometry' = s.geometry
    /\ originalMaterial' = s.originalMaterial
    /\ originalGeometry' = s.originalGeometry
    /\ sunScale' = s.sunScale
    /\ originalSunScale' = s.originalSunScale
    /\ waiting' = s.waiting

\* `if (!userData.originalMaterial) userData.originalMaterial = material`
saveOriginalMaterial(s, b) ==
    IF s.originalMaterial[b] = NoSlot
    THEN [s EXCEPT !.originalMaterial[b] = s.material[b]]
    ELSE s

\* CloseViewSystem.restoreOriginalMaterial
restoreOriginalMaterial(s, b) ==
    IF s.originalMaterial[b] # NoSlot
    THEN [s EXCEPT !.material[b] = s.originalMaterial[b],
                   !.originalMaterial[b] = NoSlot]
    ELSE s

\* CloseViewSystem.upgradeGeometryResolution
upgradeGeometryResolution(s, b) ==
    LET saved == IF s.originalGeometry[b] = NoSlot
                 THEN [s EXCEPT !.originalGeometry[b] = s.geometry[b]]
                 ELSE s
    IN  [saved EXCEPT !.geometry[b] = "highRes"]

\* CloseViewSystem.upgradeGeometryForCelestialBody
upgradeGeometryForCelestialBody(s, b) ==
    LET saved == IF s.originalGeometry[b] = NoSlot
                 THEN [s EXCEPT !.originalGeometry[b] = s.geometry[b]]
                 ELSE s
    IN  [saved EXCEPT !.geometry[b] = "highRes"]

\* CloseViewSystem.restoreOriginalGeometry
restoreOriginalGeometry(s, b) ==
    IF s.originalGeometry[b] # NoSlot
    THEN [s EXCEPT !.geometry[b] = s.originalGeometry[b],
                   !.originalGeometry[b] = NoSlot]
    ELSE s

\* CloseViewSystem.adjustSunScaleForEarthMoonSystem
adjustSunScaleForEarthMoonSystem(s) ==
    LET saved == IF s.originalSunScale = NoSlot
                 THEN [s EXCEPT !.originalSunScale = s.sunScale]
                 ELSE s
    IN  [saved EXCEPT !.sunScale = "adjusted"]

\* CloseViewSystem.restoreSunScale
restoreSunScale(s) ==
    IF s.originalSunScale # NoSlot
    THEN [s EXCEPT !.sunScale = s.originalSunScale, !.originalSunScale = NoSlot]
    ELSE s

\* CloseViewSystem.restoreEarthMoonSystemScale
restoreEarthMoonSystemScale(s) ==
    LET earth == restoreOriginalGeometry(restoreOriginalMaterial(s, "earth"), "earth")
    IN  restoreOriginalGeometry(restoreOriginalMaterial(earth, "moon"), "moon")

\* CloseViewSystem.enableCustomCameraControl
enableCustomCameraControl(s) ==
    [s EXCEPT !.customCameraControl = TRUE, !.controlsEnabled = FALSE]

\* CloseViewSystem.disableCustomCameraControl
disableCustomCameraControl(s) ==
    [s EXCEPT !.customCameraControl = FALSE, !.controlsEnabled = TRUE]

\* The rest of the enter animation's last callback, after `await
\* switchToCloseViewMaterial(this.currentTarget!)`.  It reads this.currentTarget
\* again: when an exit has cleared it, upgradeGeometryResolution(null) throws
\* and the callback ends there.
AfterSwitchToCloseViewMaterial(s) ==
    IF currentTarget = NoTarget
    THEN [s EXCEPT !.nullDereferenced = TRUE]
    ELSE enableCustomCameraControl(upgradeGeometryResolution(s, currentTarget))

\* A piece of code suspended at `await this.textureSystem.loadTexture(texture)`:
\* in switchToCloseViewMaterial ("switch", `was` being the material the target
\* had at the call) or in loadTextureForCelestialBody ("companion"); `resume`
\* tells whether the enter animation's callback awaits it.
Waiter(texture, at, was, resume) ==
    [texture |-> texture, at |-> at, was |-> was, resume |-> resume]

\* loadTextureForCelestialBody after its texture has arrived.
CompanionTextured(s, c) ==
    upgradeGeometryForCelestialBody([s EXCEPT !.material[c] = "textured"], c)

\* loadEarthMoonSystemTextures(name of b) up to its first suspension:
\* loadTextureForCelestialBody of the companion, which returns at once when
\* the companion is textured already, goes on at once when the texture is
\* cached and waits for the loader otherwise.
loadEarthMoonSystemTextures(s, b, cache, awaited) ==
    LET c == Companion(b)
    IN  IF s.material[c] = "textured"
        THEN [s |-> s, returned |-> TRUE]
        ELSE LET saved == saveOriginalMaterial(s, c)
             IN  IF c \in cache
                 THEN [s |-> CompanionTextured(saved, c), returned |-> TRUE]
                 ELSE [s |-> [saved EXCEPT !.waiting =
                                  Append(@, Waiter(c, "companion", saved.material[c],
                                                   awaited))],
                       returned |-> FALSE]

\* switchToCloseViewMaterial(b) after the texture of b has arrived, and what
\* follows it in the enter animation's callback.
SwitchTextured(s, b, cache) ==
    LET textured == [s EXCEPT !.material[b] = "textured"]
    IN  IF b \in EarthMoonSystem
        THEN LET loaded == loadEarthMoonSystemTextures(
                               adjustSunScaleForEarthMoonSystem(textured), b, cache, TRUE)
             IN  IF loaded.returned
                 THEN AfterSwitchToCloseViewMaterial(loaded.s)
                 ELSE loaded.s
        ELSE AfterSwitchToCloseViewMaterial(textured)

\* CloseViewSystem.createFallbackMaterial(b, was), which does not await
\* loadEarthMoonSystemTextures, and what follows it in the enter animation's
\* callback.
createFallbackMaterial(s, b, was, cache) ==
    LET basic == IF IsLambert(b, was) THEN [s EXCEPT !.material[b] = "basic"] ELSE s
    IN  IF b \in EarthMoonSystem
        THEN AfterSwitchToCloseViewMaterial(
                 loadEarthMoonSystemTextures(
                     adjustSunScaleForEarthMoonSystem(basic), b, cache, FALSE).s)
        ELSE AfterSwitchToCloseViewMaterial(basic)

\* CloseViewSystem.switchToCloseViewMaterial(b), called when the enter
\* animation ends, up to its first suspension.
switchToCloseViewMaterial(s, b, cache) ==
    LET saved == saveOriginalMaterial(s, b)
    IN  IF hasTexture(b)
        THEN IF b \in cache
             THEN SwitchTextured(saved, b, cache)
             ELSE [saved EXCEPT !.waiting =
                       Append(@, Waiter(b, "switch", s.material[b], TRUE))]
        ELSE createFallbackMaterial(saved, b, s.material[b], cache)

\* The code suspended in waiter w goes on, its texture loaded (ok) or not.
Resume(s, w, ok, cache) ==
    IF w.at = "switch"
    THEN IF ok
         THEN SwitchTextured(s, w.texture, cache)
         ELSE createFallbackMaterial(s, w.texture, w.was, cache)
    ELSE LET done == IF ok THEN CompanionTextured(s, w.texture) ELSE s
         IN  IF w.resume THEN AfterSwitchToCloseViewMaterial(done) ELSE done

RECURSIVE ResumeAll(_, _, _, _)
\* The waiters of `ws` go on in the order in which they were suspended.
ResumeAll(s, ws, ok, cache) ==
    IF ws = <<>>
    THEN s
    ELSE ResumeAll(Resume(s, Head(ws), ok, cache), Tail(ws), ok, cache)

\* The waiters of `ws` for `texture`, and the others.
WaitingFor(ws, texture) == SelectSeq(ws, LAMBDA w : w.texture = texture)
WaitingForOther(ws, texture) == SelectSeq(ws, LAMBDA w : w.texture # texture)

(***************************************************************************)
(* TextureSystem.loadTexture and dispose (src/src/systems/timeSystem.ts,   *)
(* lines 462-913), with the THREE.TextureLoader as the environment that    *)
(* answers each request once, later, with onLoad or onError.  A promise is *)
(* known by the number of its creation.  loadTexture is an async function: *)
(* what a caller holds is a fresh promise that follows the value returned, *)
(* the cached texture or a loading promise; `promise` below is the loading *)
(* promise it follows.  In the close view above the loads in flight are    *)
(* the textures the entries of `waiting` wait for.                         *)
(***************************************************************************)
\* Largest number of loading promises created.
MaxLoads == 3

\* The names loadTexture is called with.
CelestialBodyNames == {"Earth", "earth", "MOON", "pluto"}

\* String.prototype.toLowerCase on those names.
ToLowerCase(celestialBodyName) ==
    CASE celestialBodyName = "Earth" -> "earth"
      [] celestialBodyName = "MOON"  -> "moon"
      [] OTHER                       -> celestialBodyName

\* The keys of the two maps: the lower-cased names.
LoadNames == {ToLowerCase(n) : n \in CelestialBodyNames}

NoPromise == 0

\* The requests outstanding at the loader for `name`.
RequestsFor(name) == {r \in loaderRequests : r.name = name}

\* The fields of a new TextureSystem.
InitTextureSystem ==
    /\ textureCache = {}
    /\ loadingPromises = [n \in LoadNames |-> NoPromise]
    /\ loaderRequests = {}
    /\ promisesMade = 0
    /\ textureEvent = [op |-> "constructor"]
    /\ disposedWhileLoading = FALSE

LoadTexture_noInFlightCheck ==
    \E celestialBodyName \in CelestialBodyNames :
        LET name == ToLowerCase(celestialBodyName)
        IN  /\ IF name \in textureCache
               THEN /\ textureEvent' = [op |-> "loadTexture", name |-> name,
                                         outcome |-> "cached", promise |-> NoPromise,
                                         issued |-> FALSE]
                    /\ UNCHANGED <<loadingPromises, loaderRequests, promisesMade>>
               ELSE IF ~hasTexture(name)
               THEN /\ textureEvent' = [op |-> "loadTexture", name |-> name,
                                         outcome |-> "throws", promise |-> NoPromise,
                                         issued |-> FALSE]
                    /\ UNCHANGED <<loadingPromises, loaderRequests, promisesMade>>
               ELSE /\ promisesMade < MaxLoads
                    /\ promisesMade' = promisesMade + 1
                    /\ loaderRequests' = loaderRequests
                          \cup {[name |-> name, promise |-> promisesMade']}
                    /\ loadingPromises' = [loadingPromises EXCEPT ![name] = promisesMade']
                    /\ textureEvent' = [op |-> "loadTexture", name |-> name,
                                         outcome |-> "loading", promise |-> promisesMade',
                                         issued |-> TRUE]
            /\ UNCHANGED <<textureCache, disposedWhileLoading>>
            /\ UNCHANGED outsideTextureSystem
\* TextureSystem.loadTexture(celestialBodyName)
LoadTexture ==
    \E celestialBodyName \in CelestialBodyNames :
        LET name == ToLowerCase(celestialBodyName)
        IN  /\ IF name \in textureCache
               THEN /\ textureEvent' = [op |-> "loadTexture", name |-> name,
                                         outcome |-> "cached", promise |-> NoPromise,
                                         issued |-> FALSE]
                    /\ UNCHANGED <<loadingPromises, loaderRequests, promisesMade>>
               ELSE IF loadingPromises[name] # NoPromise
               THEN /\ textureEvent' = [op |-> "loadTexture", name |-> name,
                                         outcome |-> "loading",
                                         promise |-> loadingPromises[name],
                                         issued |-> FALSE]
                    /\ UNCHANGED <<loadingPromises, loaderRequests, promisesMade>>
               ELSE IF ~hasTexture(name)
               THEN /\ textureEvent' = [op |-> "loadTexture", name |-> name,
                                         outcome |-> "throws", promise |-> NoPromise,
                                         issued |-> FALSE]
                    /\ UNCHANGED <<loadingPromises, loaderRequests, promisesMade>>
               ELSE /\ promisesMade < MaxLoads
                    /\ promisesMade' = promisesMade + 1
                    /\ loaderRequests' = loaderRequests
                          \cup {[name |-> name, promise |-> promisesMade']}
                    /\ loadingPromises' = [loadingPromises EXCEPT ![name] = promisesMade']
                    /\ textureEvent' = [op |-> "loadTexture", name |-> name,
                                         outcome |-> "loading", promise |-> promisesMade',
                                         issued |-> TRUE]
            /\ UNCHANGED <<textureCache, disposedWhileLoading>>
            /\ UNCHANGED outsideTextureSystem

\* The loader's onLoad callback for request r: the texture is cached under
\* the name, the name's in-flight entry is deleted and the promise resolved.
LoaderOnLoad ==
    \E r \in loaderRequests :
        /\ loaderRequests' = loaderRequests \ {r}
        /\ textureCache' = textureCache \cup {r.name}
        /\ loadingPromises' = [loadingPromises EXCEPT ![r.name] = NoPromise]
        /\ textureEvent' = [op |-> "onLoad", name |-> r.name, outcome |-> "resolved",
                             promise |-> r.promise, issued |-> FALSE]
        /\ UNCHANGED <<promisesMade, disposedWhileLoading>>
        /\ UNCHANGED outsideTextureSystem

\* The loader's onError callback for request r: the name's in-flight entry is
\* deleted and the promise rejected.
LoaderOnError ==
    \E r \in loaderRequests :
        /\ loaderRequests' = loaderRequests \ {r}
        /\ loadingPromises' = [loadingPromises EXCEPT ![r.name] = NoPromise]
        /\ textureEvent' = [op |-> "onError", name |-> r.name, outcome |-> "rejected",
                             promise |-> r.promise, issued |-> FALSE]
        /\ UNCHANGED <<textureCache, promisesMade, disposedWhileLoading>>
        /\ UNCHANGED outsideTextureSystem

\* TextureSystem.dispose(): both maps are cleared; the loader's requests go on.
Dispose ==
    /\ textureCache' = {}
    /\ loadingPromises' = [n \in LoadNames |-> NoPromise]
    /\ textureEvent' = [op |-> "dispose"]
    /\ disposedWhileLoading' = (disposedWhileLoading \/ loaderRequests # {})
    /\ UNCHANGED <<loaderRequests, promisesMade>>
    /\ UNCHANGED outsideTextureSystem

\* CloseViewSystem and the meshes as constructed.
InitCloseView ==
    /\ isCloseViewMode = FALSE
    /\ animating = FALSE
    /\ currentTarget = NoTarget
    /\ savedCameraState = NoCameraState
    /\ customCameraControl = FALSE
    /\ controlsEnabled = TRUE
    /\ cameraAnimation = "none"
    /\ animationElapsed = 0
    /\ cameraProgress = 0
    /\ nullDereferenced = FALSE
    /\ material = [b \in Meshes |-> "original"]
    /\ geometry = [b \in Meshes |-> "original"]
    /\ originalMaterial = [b \in Meshes |-> NoSlot]
    /\ originalGeometry = [b \in Meshes |-> NoSlot]
    /\ sunScale = "original"
    /\ originalSunScale = NoSlot
    /\ InitTextureSystem
    /\ waiting = <<>>
    /\ cycles = 0
    /\ loadPendingAtExit = FALSE

\* Where the camera is: at its overview pose, or on the way between it and
\* the current target, 1000 being the close-view position.  saveCameraState
\* stores this pose.
CameraPose ==
    IF currentTarget = NoTarget
    THEN <<NoTarget, 0>>
    ELSE <<currentTarget,
           IF cameraAnimation = "exit" THEN 1000 - cameraProgress ELSE cameraProgress>>

\* `const duration = 2000` of both camera animations, in ms.
AnimationDuration == 2000

\* The real time between two looks at the clock by an animation callback.
FrameIntervals == {1000, 1500}

Min(a, b) == IF a < b THEN a ELSE b

\* Math.min(elapsed / duration, 1), in 1/1000.
AnimationProgress == Min((animationElapsed * 1000) \div AnimationDuration, 1000)

AnimationContinues_inclusive == AnimationProgress <= 1000
\* `if (progress < 1)`: the callback asks for another frame.
AnimationContinues == AnimationProgress < 1000

\* The easeInOutCubic of the two animations, in 1/1000.
EaseInOutCubic(progress) ==
    IF progress < 500
    THEN (4 * progress * progress * progress) \div 1000000
    ELSE 1000 - ((2000 - 2 * progress) * (2000 - 2 * progress) * (2000 - 2 * progress))
                  \div 2000000

MouseClick_whileAnimating ==
    \E b \in Meshes :
        /\ cycles < MaxCycles
        /\ IF isCloseViewMode
           THEN UNCHANGED closeVars
           ELSE /\ animating' = TRUE
                /\ currentTarget' = b
                /\ savedCameraState' = CameraPose
                /\ cameraAnimation' = "enter"
                /\ animationElapsed' = 0
                /\ cameraProgress' = EaseInOutCubic(0)
                /\ UNCHANGED <<isCloseViewMode, meshVars, textureCache,
                               cycles, loadPendingAtExit>>
        /\ UNCHANGED outsideCloseView
\* onMouseClick with the ray hitting mesh b: nothing in close-view mode or
\* during an animation; otherwise enterCloseView(b) saves the camera state
\* and starts the animation towards b, whose first callback runs at once.
MouseClick ==
    \E b \in Meshes :
        /\ cycles < MaxCycles
        /\ IF isCloseViewMode \/ animating
           THEN UNCHANGED closeVars
           ELSE /\ animating' = TRUE
                /\ currentTarget' = b
                /\ savedCameraState' = CameraPose
                /\ cameraAnimation' = "enter"
                /\ animationElapsed' = 0
                /\ cameraProgress' = EaseInOutCubic(0)
                /\ UNCHANGED <<isCloseViewMode, meshVars, textureCache,
                               cycles, loadPendingAtExit>>
        /\ UNCHANGED outsideCloseView

\* Real time passes during a camera animation.
ClockAdvance ==
    \E interval \in FrameIntervals :
        /\ cameraAnimation # "none"
        /\ animationElapsed < AnimationDuration
        /\ animationElapsed' = animationElapsed + interval
        /\ UNCHANGED <<closeViewFields, cameraProgress, meshVars, textureCache,
                       cycles, loadPendingAtExit>>
        /\ UNCHANGED outsideCloseView

\* A callback of a camera animation with progress < 1: it moves the camera
\* and asks for the next frame.
CameraAnimationFrame ==
    /\ cameraAnimation # "none"
    /\ AnimationContinues
    /\ cameraProgress' = EaseInOutCubic(AnimationProgress)
    /\ UNCHANGED <<closeViewFields, animationElapsed, meshVars, textureCache,
                   cycles, loadPendingAtExit>>
    /\ UNCHANGED outsideCloseView

\* The last callback of the enter animation (progress = 1).
EnterAnimationDone ==
    /\ cameraAnimation = "enter"
    /\ ~AnimationContinues
    /\ cameraProgress' = EaseInOutCubic(AnimationProgress)
    /\ animationElapsed' = 0
    /\ cameraAnimation' = "none"
    /\ isCloseViewMode' = TRUE
    /\ animating' = FALSE
    /\ BecomesMeshState(switchToCloseViewMaterial(MeshState, currentTarget, textureCache))
    /\ UNCHANGED <<currentTarget, savedCameraState, textureCache,
                   cycles, loadPendingAtExit>>
    /\ UNCHANGED outsideCloseView

\* The loader calls back with a texture: it is cached and every piece of
\* code waiting for it goes on.
TextureLoaded ==
    \E texture \in {waiting[k].texture : k \in DOMAIN waiting} :
        /\ textureCache' = textureCache \cup {texture}
        /\ BecomesMeshState(
               ResumeAll([MeshState EXCEPT !.waiting = WaitingForOther(waiting, texture)],
                         WaitingFor(waiting, texture), TRUE, textureCache'))
        /\ UNCHANGED <<closeViewFields, cameraVars, cycles, loadPendingAtExit>>
        /\ UNCHANGED outsideCloseView

\* The loader reports an error: every piece of code waiting for the texture
\* goes on in its catch clause.
TextureFailed ==
    \E texture \in {waiting[k].texture : k \in DOMAIN waiting} :
        /\ BecomesMeshState(
               ResumeAll([MeshState EXCEPT !.waiting = WaitingForOther(waiting, texture)],
                         WaitingFor(waiting, texture), FALSE, textureCache))
        /\ UNCHANGED <<closeViewFields, cameraVars, textureCache,
                       cycles, loadPendingAtExit>>
        /\ UNCHANGED outsideCloseView

\* keydown of Escape: the listener calls exitCloseView() in close-view mode
\* only, and exitCloseView() returns at once during an animation; otherwise
\* it starts the animation back, whose first callback runs at once.
KeyEscape ==
    /\ IF ~isCloseViewMode
       THEN UNCHANGED closeVars
       ELSE IF ~isCloseViewMode \/ savedCameraState = NoCameraState \/ animating
       THEN UNCHANGED closeVars
       ELSE /\ animating' = TRUE
            /\ cameraAnimation' = "exit"
            /\ animationElapsed' = 0
            /\ cameraProgress' = EaseInOutCubic(0)
            /\ loadPendingAtExit' = (waiting # <<>>)
            /\ UNCHANGED <<isCloseViewMode, currentTarget, savedCameraState, meshVars,
                           textureCache, cycles>>
    /\ UNCHANGED outsideCloseView

\* The last callback of the exit animation (progress = 1).
ExitAnimationDone ==
    LET disabled == disableCustomCameraControl(MeshState)
        restored ==
            IF currentTarget # NoTarget
            THEN LET target == restoreOriginalGeometry(
                                   restoreOriginalMaterial(disabled, currentTarget),
                                   currentTarget)
                 IN  IF currentTarget \in EarthMoonSystem
                     THEN restoreEarthMoonSystemScale(target)
                     ELSE target
            ELSE disabled
    IN  /\ cameraAnimation = "exit"
        /\ ~AnimationContinues
        /\ cameraProgress' = EaseInOutCubic(AnimationProgress)
        /\ animationElapsed' = 0
        /\ cameraAnimation' = "none"
        /\ BecomesMeshState(restoreSunScale(restored))
        /\ isCloseViewMode' = FALSE
        /\ currentTarget' = NoTarget
        /\ savedCameraState' = NoCameraState
        /\ animating' = FALSE
        /\ cycles' = cycles + 1
        /\ UNCHANGED <<textureCache, loadPendingAtExit>>
        /\ UNCHANGED outsideCloseView

(***************************************************************************)
(* The close view without textures (src/src/systems/closeViewSystem.ts):   *)
(* the same clicks, keys and camera animations; at the end of the enter    *)
(* animation the material is swapped at once for an unlit one.             *)
(***************************************************************************)
\* switchToCloseViewMaterial of closeViewSystem.ts
PlainSwitchToCloseViewMaterial(s, b) ==
    LET saved == saveOriginalMaterial(s, b)
    IN  IF IsLambert(b, s.material[b])
        THEN [saved EXCEPT !.material[b] = "basic"]
        ELSE saved

PlainEnterAnimationDone_noCustomControl ==
    /\ cameraAnimation = "enter"
    /\ ~AnimationContinues
    /\ cameraProgress' = EaseInOutCubic(AnimationProgress)
    /\ animationElapsed' = 0
    /\ cameraAnimation' = "none"
    /\ isCloseViewMode' = TRUE
    /\ animating' = FALSE
    /\ BecomesMeshState(
           [upgradeGeometryResolution(
                PlainSwitchToCloseViewMaterial(MeshState, currentTarget),
                currentTarget) EXCEPT !.customCameraControl = TRUE])
    /\ UNCHANGED <<currentTarget, savedCameraState, textureCache,
                   cycles, loadPendingAtExit>>
    /\ UNCHANGED outsideCloseView
\* The last callback of the enter animation of closeViewSystem.ts.
PlainEnterAnimationDone ==
    /\ cameraAnimation = "enter"
    /\ ~AnimationContinues
    /\ cameraProgress' = EaseInOutCubic(AnimationProgress)
    /\ animationElapsed' = 0
    /\ cameraAnimation' = "none"
    /\ isCloseViewMode' = TRUE
    /\ animating' = FALSE
    /\ BecomesMeshState(
           enableCustomCameraControl(
               upgradeGeometryResolution(
                   PlainSwitchToCloseViewMaterial(MeshState, currentTarget),
                   currentTarget)))
    /\ UNCHANGED <<currentTarget, savedCameraState, textureCache,
                   cycles, loadPendingAtExit>>
    /\ UNCHANGED outsideCloseView

\* The last callback of the exit animation of closeViewSystem.ts.
PlainExitAnimationDone ==
    LET disabled == disableCustomCameraControl(MeshState)
        restored ==
            IF currentTarget # NoTarget
            THEN restoreOriginalGeometry(
                     restoreOriginalMaterial(disabled, currentTarget), currentTarget)
            ELSE disabled
    IN  /\ cameraAnimation = "exit"
        /\ ~AnimationContinues
        /\ cameraProgress' = EaseInOutCubic(AnimationProgress)
        /\ animationElapsed' = 0
        /\ cameraAnimation' = "none"
        /\ BecomesMeshState(restored)
        /\ isCloseViewMode' = FALSE
        /\ currentTarget' = NoTarget
        /\ savedCameraState' = NoCameraState
        /\ animating' = FALSE
        /\ cycles' = cycles + 1
        /\ UNCHANGED <<textureCache, loadPendingAtExit>>
        /\ UNCHANGED outsideCloseView

----------------------------------------------------------------------------
InitTimeSystem ==
    /\ now \in 0 .. MaxNow
    /\ timeMode = "static"
    /\ simulationStartTime = now
    /\ animationTimeScale = WeekScale
    /\ isPaused = FALSE
    /\ pausedTime = 0
    /\ currentTimeScaleOption = "week"
    /\ buttonClass = ""
    /\ infoText = <<"static">>
    /\ selectorDisplay = "none"
    /\ activeOption \in TimeScaleOptions
    /\ clockText = <<"static", now \div 1000>>
    /\ op = "constructor"
    /\ ret = NoInstant
    /\ frozen = NoInstant
    /\ resumed = <<>>
    /\ repaused = <<>>

\* The scene built from the declared table.
InitScene ==
    /\ celestialData = DeclaredData
    /\ CreateCelestialObjects

Init ==
    /\ InitTimeSystem
    /\ InitOrbitalMath
    /\ InitScene
    /\ InitCloseView

\* The wall clock advances.
Tick ==
    /\ now < MaxNow
    /\ now' = now + 1
    /\ op' = "tick"
    /\ UNCHANGED <<clockVars, domVars, clockText, ret, histVars>>
    /\ UNCHANGED outsideTimeSystem

\* A caller reads the simulated instant.
GetSimulationTime ==
    /\ ret' = getSimulationTime
    /\ op' = "getSimulationTime"
    /\ UNCHANGED <<now, clockVars, domVars, clockText, histVars>>
    /\ UNCHANGED outsideTimeSystem

\* The one-second interval timer refreshes the clock display.
UpdateClock ==
    /\ clockText' = clockDisplay
    /\ op' = "updateClock"
    /\ UNCHANGED <<now, clockVars, domVars, ret, histVars>>
    /\ UNCHANGED outsideTimeSystem

\* Click on #time-mode-button, or a direct call.
ToggleTimeMode ==
    /\ toggleTimeMode
    /\ op' = "toggleTimeMode"
    /\ frozen' = NoInstant
    /\ resumed' = <<>>
    /\ repaused' = <<>>
    /\ UNCHANGED <<now, clockText, ret>>
    /\ UNCHANGED outsideTimeSystem

\* History kept across a togglePause() call.
PauseHistory ==
    IF timeMode # "animation"
    THEN UNCHANGED histVars
    ELSE IF isPaused
         THEN /\ frozen' = NoInstant
              /\ resumed' = <<getSimulationTime, now>>
              /\ repaused' = <<>>
         ELSE /\ frozen' = getSimulationTime
              /\ resumed' = <<>>
              /\ repaused' = IF resumed = <<>> THEN <<>>
                             ELSE <<resumed[1], now - resumed[2]>>

TogglePause ==
    /\ togglePause
    /\ PauseHistory
    /\ op' = "togglePause"
    /\ UNCHANGED <<now, clockText, ret>>
    /\ UNCHANGED outsideTimeSystem

\* keydown handler of setupKeyboardControls() for the Space key.
KeySpace ==
    /\ IF timeMode = "animation"
       THEN togglePause /\ PauseHistory
       ELSE UNCHANGED <<clockVars, domVars, histVars>>
    /\ op' = "keySpace"
    /\ UNCHANGED <<now, clockText, ret>>
    /\ UNCHANGED outsideTimeSystem

SetTimeScaleOption ==
    \E option \in TimeScaleOptions :
        /\ setTimeScaleOption(option)
        /\ op' = "setTimeScaleOption"
        /\ frozen' = NoInstant
        /\ resumed' = <<>>
        /\ repaused' = <<>>
        /\ UNCHANGED <<now, clockText, ret>>
        /\ UNCHANGED outsideTimeSystem

\* Click handler installed by setupTimeScaleSelector():
\* setTimeScaleOption(scale) and then updateTimeScaleUI().
ScaleOptionClick ==
    \E option \in TimeScaleOptions :
        /\ setTimeScale(option)
        /\ timeControlsUI
        /\ updateTimeScaleUI
        /\ op' = "scaleOptionClick"
        /\ frozen' = NoInstant
        /\ resumed' = <<>>
        /\ repaused' = <<>>
        /\ UNCHANGED <<now, clockText, ret>>
        /\ UNCHANGED outsideTimeSystem

Next ==
    \/ Tick
    \/ GetSimulationTime
    \/ UpdateClock
    \/ ToggleTimeMode
    \/ TogglePause
    \/ KeySpace
    \/ SetTimeScaleOption
    \/ ScaleOptionClick

Spec == Init /\ [][Next]_vars

\* The OrbitalMath functions applied to their arguments.
NextMath ==
    \/ CalculatePlanetPosition
    \/ CalculateMoonPosition
    \/ CalculateRotationAngle
    \/ GenerateOrbitPath

\* The time system as constructed at instant 0, and one call from MathCalls
\* about to be made.
InitMath ==
    /\ InitTimeSystem
    /\ now = 0
    /\ activeOption = "week"
    /\ mathCall \in MathCalls
    /\ mathResult = <<>>
    /\ InitScene
    /\ InitCloseView

SpecMath == InitMath /\ [][NextMath]_vars

\* The animation loop over the running clock: frames interleaved with the
\* wall clock and the time controls.
NextFrame ==
    \/ Tick
    \/ ToggleTimeMode
    \/ TogglePause
    \/ SetTimeScaleOption
    \/ Animate

InitFrame ==
    /\ Init
    /\ activeOption = "week"

SpecFrame == InitFrame /\ [][NextFrame]_vars

\* The same loop over a table with malformed elements.
InitLoad ==
    /\ InitTimeSystem
    /\ activeOption = "week"
    /\ InitOrbitalMath
    /\ celestialData \in MalformedData
    /\ CreateCelestialObjects
    /\ InitCloseView

\* The loop at the rate of construction.
NextLoad ==
    \/ Tick
    \/ ToggleTimeMode
    \/ TogglePause
    \/ Animate

SpecLoad == InitLoad /\ [][NextLoad]_vars

\* The close view: clicks, Escape, the ends of the camera animations and the
\* texture loader's callbacks.
NextCloseView ==
    \/ MouseClick
    \/ ClockAdvance
    \/ CameraAnimationFrame
    \/ EnterAnimationDone
    \/ TextureLoaded
    \/ TextureFailed
    \/ KeyEscape
    \/ ExitAnimationDone

InitCloseViewOnly ==
    /\ Init
    /\ now = 0
    /\ activeOption = "week"

SpecCloseView == InitCloseViewOnly /\ [][NextCloseView]_vars

\* The texture system with its callers and its loader.
NextTexture ==
    \/ LoadTexture
    \/ LoaderOnLoad
    \/ LoaderOnError
    \/ Dispose

SpecTexture == InitCloseViewOnly /\ [][NextTexture]_vars

\* The close view without textures.
NextPlainCloseView ==
    \/ MouseClick
    \/ ClockAdvance
    \/ CameraAnimationFrame
    \/ PlainEnterAnimationDone
    \/ KeyEscape
    \/ PlainExitAnimationDone

SpecPlainCloseView == InitCloseViewOnly /\ [][NextPlainCloseView]_vars

\* The same with the browser delivering the animation frames asked for and
\* the wall clock advancing.
LivePlainCloseView ==
    /\ SpecPlainCloseView
    /\ WF_vars(ClockAdvance)
    /\ WF_vars(CameraAnimationFrame)
    /\ WF_vars(PlainEnterAnimationDone)
    /\ WF_vars(PlainExitAnimationDone)

----------------------------------------------------------------------------
\* The acceleration factor of the spec: simulated ms per real ms.
Factor == animationTimeScale \div 1000

\* C1: every getSimulationTime() call returns wall-clock now in static mode,
\* anchor + pausedTime x factor while paused and anchor + (now - anchor) x
\* factor while running, and it changes no clock field.
C1_GetSimulationTimeContract ==
    [][op' = "getSimulationTime" =>
          /\ ret' = CASE timeMode = "static" -> now
                      [] timeMode = "animation" /\ isPaused ->
                            simulationStartTime + pausedTime * Factor
                      [] timeMode = "animation" /\ ~isPaused ->
                            simulationStartTime + (now - simulationStartTime) * Factor
          /\ UNCHANGED <<now, clockVars>>]_vars

C1_Witness ==
    /\ op = "getSimulationTime"
    /\ timeMode = "animation"
    /\ isPaused
    /\ pausedTime > 0
    /\ now > simulationStartTime + pausedTime
    /\ ret = simulationStartTime + pausedTime * Factor

\* C2: the instant read right after a resume (togglePause while paused) equals
\* the frozen instant read right before it, however long the pause lasted.
C2_ResumeContinuesFromFrozenInstant ==
    (op \in {"togglePause", "keySpace"} /\ resumed # <<>>)
        => getSimulationTime = resumed[1]

\* C3: changing the rate while running causes no time jump: the instant read
\* right after setTimeScaleOption equals the one read right before it.
C3_RateChangeCausesNoJump ==
    [][(timeMode = "animation" /\ ~isPaused
            /\ op' \in {"setTimeScaleOption", "scaleOptionClick"})
          => getSimulationTime' = getSimulationTime]_vars

\* C4: from a pause until the next togglePause, toggleTimeMode or rate change,
\* every getSimulationTime() call returns the same value, the running value at
\* the wall-clock instant of the pause, however far the wall clock advances.
C4_FrozenWhilePaused ==
    frozen # NoInstant =>
        /\ timeMode = "animation" /\ isPaused
        /\ getSimulationTime = frozen
        /\ (op = "getSimulationTime" => ret = frozen)

C4_Witness ==
    /\ frozen # NoInstant
    /\ op = "getSimulationTime"
    /\ pausedTime > 0
    /\ now > simulationStartTime + pausedTime + 1
    /\ ret = frozen

\* C5: pause at S, resume after any real pause, run for a delay D and pause
\* again: the frozen instant is exactly S + D x factor.
C5_RepauseAdvancesByDelayTimesFactor ==
    repaused # <<>> => getSimulationTime = repaused[1] + repaused[2] * Factor

\* C6: toggleTimeMode from static enters animation mode running, anchored at
\* now with a zero paused offset, so the simulated instant at that wall-clock
\* value is wall-clock now, whatever the rate and the earlier sessions.
C6_EnterAcceleratedWithoutJump ==
    [][(timeMode = "static" /\ op' = "toggleTimeMode") =>
          /\ timeMode' = "animation"
          /\ simulationStartTime' = now'
          /\ pausedTime' = 0
          /\ isPaused' = FALSE
          /\ getSimulationTime' = now']_vars

C6_Witness ==
    /\ op = "toggleTimeMode"
    /\ timeMode = "animation"
    /\ clockText[1] = "animation"
    /\ animationTimeScale = DayScale
    /\ now > 1
    /\ getSimulationTime = now

\* C7: toggleTimeMode from animation mode, running or paused, returns to static
\* mode with the pause flag cleared and the paused offset 0; reads in static
\* mode return wall-clock now, and the next entry into animation mode starts
\* from a fresh anchor and a zero offset.
C7_LeaveAcceleratedDiscardsSession ==
    /\ [][(timeMode = "animation" /\ op' = "toggleTimeMode") =>
            /\ timeMode' = "static"
            /\ isPaused' = FALSE
            /\ pausedTime' = 0
            /\ getSimulationTime' = now']_vars
    /\ [][(timeMode = "static" /\ op' = "getSimulationTime") => ret' = now]_vars
    /\ [][(timeMode = "static" /\ timeMode' = "animation") =>
            /\ simulationStartTime' = now'
            /\ pausedTime' = 0
            /\ isPaused' = FALSE]_vars

C7_Witness ==
    /\ op = "toggleTimeMode"
    /\ timeMode = "static"
    /\ simulationStartTime < now
    /\ currentTimeScaleOption = "day"
    /\ ~isPaused
    /\ pausedTime = 0

\* C8: togglePause in static mode changes no clock field; the Space key changes
\* no clock field in static mode and toggles the pause flag in animation mode.
C8_TogglePauseNoOpInRealtime ==
    /\ [][(timeMode = "static" /\ op' \in {"togglePause", "keySpace"})
            => UNCHANGED clockVars]_vars
    /\ [][(timeMode = "animation" /\ op' = "keySpace")
            => (isPaused' = ~isPaused /\ timeMode' = "animation")]_vars

C8_Witness ==
    /\ op = "togglePause"
    /\ timeMode = "static"
    /\ simulationStartTime < now
    /\ animationTimeScale = HourScale

\* C9: the clock starts in static mode and is always in one of the three
\* states: the pause flag is never set in static mode, and in static mode the
\* paused offset is 0.
C9_ThreeClockStates ==
    /\ timeMode \in {"static", "animation"}
    /\ isPaused \in BOOLEAN
    /\ (op = "constructor" => timeMode = "static")
    /\ (timeMode = "static" => (~isPaused /\ pausedTime = 0))

C9_Witness ==
    /\ timeMode = "static"
    /\ op = "setTimeScaleOption"
    /\ clockText[1] = "animation"
    /\ simulationStartTime < now
    /\ pausedTime = 0

\* C10: setTimeScaleOption in static mode leaves mode, pause flag, anchor and
\* offset alone and the simulated instant stays wall-clock now; the rate it
\* sets is the rate in force after the next toggleTimeMode.
C10_RateChangeInRealtimeDeferred ==
    /\ [][(timeMode = "static" /\ op' \in {"setTimeScaleOption", "scaleOptionClick"}) =>
            /\ UNCHANGED <<timeMode, isPaused, simulationStartTime, pausedTime>>
            /\ getSimulationTime' = now'
            /\ animationTimeScale' = TimeScaleOf(currentTimeScaleOption')]_vars
    /\ [][(timeMode = "static" /\ op' = "toggleTimeMode") =>
            /\ animationTimeScale' = animationTimeScale
            /\ animationTimeScale' = TimeScaleOf(currentTimeScaleOption')]_vars

C10_Witness ==
    /\ op = "setTimeScaleOption"
    /\ timeMode = "static"
    /\ animationTimeScale = HourScale
    /\ simulationStartTime < now
    /\ getSimulationTime = now

----------------------------------------------------------------------------
(***************************************************************************)
(* Orbital math engine.                                                    *)
(***************************************************************************)
PlanetCall == mathCall.fn = "calculatePlanetPosition" /\ Returned
MoonCall == mathCall.fn = "calculateMoonPosition" /\ Returned
RotationCall == mathCall.fn = "calculateRotationAngle" /\ Returned
OrbitPathCall == mathCall.fn = "generateOrbitPath" /\ Returned

\* What the Kepler loop of the recorded call did: its final estimate, the
\* number of passes and the last correction.
SolvedKepler ==
    IF mathCall.fn = "calculatePlanetPosition"
    THEN LET meanAnomaly == MeanAnomaly(mathCall.data, mathCall.time)
         IN  KeplerLoop(OrZero(mathCall.data, "eccentricity"),
                        meanAnomaly, meanAnomaly, 0, NonFinite)
    ELSE LET meanAnomaly == MoonMeanAnomaly(mathCall.data, mathCall.time)
         IN  MoonKeplerLoop(OrZero(mathCall.data, "eccentricity"),
                            meanAnomaly, meanAnomaly, 0, NonFinite)

\* Elements a Kepler routine is meant for: eccentricity in [0, 1) and a
\* positive orbital period.
WellFormedElements(data) ==
    /\ OrZero(data, "eccentricity") >= 0
    /\ OrZero(data, "eccentricity") < Scale
    /\ data.orbitalPeriod > 0

WellFormedCall == WellFormedElements(mathCall.data)

\* C11: for every eccentricity and mean anomaly, malformed ones included,
\* the Kepler loop of calculatePlanetPosition and of calculateMoonPosition
\* makes at most 10 passes and at least one, stops before the tenth only
\* when the last correction is below 1e-8, and the position returned is
\* the one computed from the last estimate, whether or not the cap was hit.
C11_KeplerLoopBounded ==
    (PlanetCall \/ MoonCall) =>
        /\ SolvedKepler.passes >= 1
        /\ SolvedKepler.passes <= 10
        /\ SolvedKepler.passes < 10 => LessThan1eMinus8(SolvedKepler.deltaE)
        /\ PlanetCall =>
               mathResult = PlanetPositionAt(mathCall.data, SolvedKepler.eccentricAnomaly)
        /\ Len(mathResult) = 3

\* A planet call hit the cap without converging and still produced a finite
\* position.
C11_Witness ==
    /\ PlanetCall
    /\ SolvedKepler.passes = 10
    /\ ~LessThan1eMinus8(SolvedKepler.deltaE)
    /\ \A k \in 1 .. 3 : IsFinite(mathResult[k])

\* C12: malformed orbital elements (an eccentricity outside [0, 1), a zero
\* orbital period on a body that orbits) are rejected when the table is
\* loaded, so no body carrying them is ever passed on to a Kepler routine.
C12_MalformedElementsRejected ==
    \A b \in keplerCalled : WellFormedElements(celestialData[b])

\* C13: the Kepler routines are called only for bodies with a positive
\* orbital period, never for the sun, and the sun stays at the origin.
C13_CentralBodyNeverSolved ==
    /\ \A b \in keplerCalled : celestialData[b].orbitalPeriod > 0
    /\ "sun" \notin keplerCalled
    /\ position.sun = Origin

\* A frame has moved the planets and the moon and turned the sun, which is
\* still at the origin.
C13_Witness ==
    /\ keplerCalled = {"mercury", "venus", "earth", "moon"}
    /\ rotationY.sun # 0
    /\ position.sun = Origin
    /\ position.earth # <<Times(Earth.semiMajorAxis, DistanceScale), 0, 0>>

\* C15: generateOrbitPath(elements, N) returns exactly N + 1 points, the
\* point of index i computed at true anomaly (i / N) * 2 * pi for i = 0..N,
\* and the first and the last point coincide, for every N >= 1.  The angle
\* is compared with i * 2 * pi / N up to 10 units of rounding.
C15_OrbitPathClosed ==
    OrbitPathCall =>
        LET N == mathCall.segments
        IN  /\ Len(mathResult) = N + 1
            /\ \A i \in 0 .. N :
                  /\ mathResult[i + 1]
                        = OrbitPathPoint(mathCall.data, SampleAnomaly(i, N))
                  /\ Abs(SampleAnomaly(i, N) - (i * TwoPi) \div N) <= 10
            /\ mathResult[1] = mathResult[N + 1]

\* The path of Mercury with the largest segment count: closed, and its
\* second point is away from the first.
C15_Witness ==
    /\ OrbitPathCall
    /\ mathCall.data = Mercury
    /\ mathCall.segments = MaxSegments
    /\ Len(mathResult) = MaxSegments + 1
    /\ mathResult[1] = mathResult[MaxSegments + 1]
    /\ mathResult[2] # mathResult[1]

\* The largest difference between two positions over the three coordinates
\* is at most `slack`.
Near(p, q, slack) ==
    \A k \in 1 .. 3 :
        /\ IsFinite(p[k])
        /\ IsFinite(q[k])
        /\ Abs(p[k] - q[k]) <= slack

\* C16: for elements with eccentricity in [0, 1), the position returned by
\* calculatePlanetPosition is the point generateOrbitPath computes for the
\* same elements at the true anomaly of the call (same radius, same
\* orientation transform, same (x, z, y) swap), up to 500 units of rounding
\* (5e-4 scene units on coordinates of up to 18: the true anomaly is
\* resolved to 8e-6 rad, which the radius of an orbit with e = 0.9
\* amplifies near its aphelion).
C16_PositionOnOrbitPath ==
    (PlanetCall /\ WellFormedCall) =>
        Near(mathResult,
             OrbitPathPoint(mathCall.data,
                            TrueAnomaly(mathCall.data.eccentricity,
                                        SolvedKepler.eccentricAnomaly)),
             500)

\* Mercury, 100 days after the epoch, away from its perihelion and from the
\* orbit's nodes, lies on its orbit line.
C16_Witness ==
    /\ PlanetCall
    /\ mathCall.data = Mercury
    /\ mathCall.time = J2000_EPOCH + 100 * SecondsPerDay
    /\ \A k \in 1 .. 3 : Abs(mathResult[k]) > Scale \div 10
    /\ Near(mathResult,
            OrbitPathPoint(Mercury, TrueAnomaly(Mercury.eccentricity,
                                                SolvedKepler.eccentricAnomaly)),
            500)

\* C17: calculateRotationAngle returns (daysSinceEpoch / |rotationPeriod|)
\* * 2 * pi, negated when rotationPeriod < 0: a body with rotationPeriod -P
\* has turned by exactly -2 * pi when |P| days have passed since the epoch,
\* and its angle is the negation of the angle of a body with period +P at
\* the same instant.
C17_RotationAngle ==
    RotationCall =>
        LET rotationPeriod == mathCall.data.rotationPeriod
            days == DaysSinceJ2000(mathCall.time)
            turn == Times(Times(Over(days, Abs(rotationPeriod)), Num(2)), MathPI)
        IN  /\ mathResult[1] = IF rotationPeriod < 0 THEN -turn ELSE turn
            /\ (rotationPeriod < 0 /\ days = -rotationPeriod)
                  => mathResult[1] = -TwoPi
            /\ mathResult[1]
                  = -calculateRotationAngle(Spinner(-rotationPeriod), mathCall.time)

\* A retrograde body one rotation period after the epoch: one reverse turn.
C17_Witness ==
    /\ RotationCall
    /\ mathCall.data.rotationPeriod = -Num(243)
    /\ DaysSinceJ2000(mathCall.time) = Num(243)
    /\ mathResult = << -TwoPi >>

\* C18: calculateMoonPosition returns the primary's position plus an offset
\* that depends only on the satellite's elements and the instant: moving
\* the primary from p1 to p2 moves the result by p2 - p1, component by
\* component.
C18_MoonFollowsPrimary ==
    (MoonCall /\ \A k \in 1 .. 3 : IsFinite(mathResult[k])) =>
        LET offset == calculateMoonPosition(mathCall.data, Origin, mathCall.time)
        IN  /\ \A k \in 1 .. 3 :
                  mathResult[k] - mathCall.earthPosition[k] = offset[k]
            /\ \A p2 \in PrimaryPositions : \A k \in 1 .. 3 :
                  calculateMoonPosition(mathCall.data, p2, mathCall.time)[k]
                      - mathResult[k]
                    = p2[k] - mathCall.earthPosition[k]

\* The moon around a primary that is off every axis, itself off the primary
\* in every coordinate.
C18_Witness ==
    /\ MoonCall
    /\ mathCall.data = Moon
    /\ mathCall.earthPosition = <<369452, -7, -10157311>>
    /\ \A k \in 1 .. 3 :
          /\ IsFinite(mathResult[k])
          /\ mathResult[k] # mathCall.earthPosition[k]

\* The residual |E - e * sin(E) - M| of the estimate the Kepler loop of the
\* recorded planet call ended with.
KeplerResidual ==
    LET eccentricity == OrZero(mathCall.data, "eccentricity")
        meanAnomaly == MeanAnomaly(mathCall.data, mathCall.time)
        E == SolvedKepler.eccentricAnomaly
    IN  IF IsFinite(E)
        THEN Abs(Minus(Minus(E, Times(eccentricity, MathSin(E))), meanAnomaly))
        ELSE NonFinite

\* C19: for an eccentricity in [0, 0.99] and any mean anomaly, the eccentric
\* anomaly E the Kepler loop ends with satisfies |E - e * sin(E) - M| < 1e-6
\* (stated with 100 units of slack, 1e-4, for the rounding of the model).
C19_KeplerResidualSmall ==
    ( /\ PlanetCall
      /\ mathCall.data.orbitalPeriod > 0
      /\ OrZero(mathCall.data, "eccentricity") >= 0
      /\ OrZero(mathCall.data, "eccentricity") <= 990000 )
        => KeplerResidual < 100

----------------------------------------------------------------------------
(***************************************************************************)
(* Close view.                                                             *)
(***************************************************************************)
\* The close-view fields are those of the constructor.
Idle ==
    /\ ~isCloseViewMode
    /\ currentTarget = NoTarget
    /\ savedCameraState = NoCameraState
    /\ ~animating
    /\ ~customCameraControl

\* C20: after any number of complete enter/exit cycles on any body, every
\* body's geometry and material are the objects it had before the first
\* enter, the originalGeometry and originalMaterial slots are cleared, and
\* the close-view fields are back to idle.
C20_RestoredAfterExit ==
    (cycles >= 1 /\ cameraAnimation = "none" /\ ~isCloseViewMode /\ ~animating) =>
        /\ Idle
        /\ \A b \in Meshes :
              /\ material[b] = "original"
              /\ geometry[b] = "original"
              /\ originalMaterial[b] = NoSlot
              /\ originalGeometry[b] = NoSlot

----------------------------------------------------------------------------
(***************************************************************************)
(* Simulation clock, continued.                                            *)
(***************************************************************************)
\* C21: while the clock is paused in animation mode, every operation other
\* than togglePause (or the Space key) and toggleTimeMode leaves the simulated
\* instant unchanged; in particular setTimeScaleOption does.
C21_PausedInstantFrozen ==
    [][(timeMode = "animation" /\ isPaused
            /\ op' \notin {"togglePause", "keySpace", "toggleTimeMode"})
          => getSimulationTime' = getSimulationTime]_vars

----------------------------------------------------------------------------
(***************************************************************************)
(* Scene, continued.                                                       *)
(***************************************************************************)
\* The square of the distance between the moon's mesh and Earth's.
MoonEarthDistanceSquared ==
    LET dx == Minus(position.moon[1], position.earth[1])
        dy == Minus(position.moon[2], position.earth[2])
        dz == Minus(position.moon[3], position.earth[3])
    IN  Plus(Plus(Times(dx, dx), Times(dy, dy)), Times(dz, dz))

\* C22: calculateMoonPosition applies to the moon's semi-major axis the
\* display multiplier of createMoon: once a frame has placed the moon, its
\* distance from Earth is at most the apogee a(1 + e) of the orbit sized with
\* createMoon's multiplier (one part in a thousand allowed for rounding).
C22_SameSatelliteMultiplier ==
    "moon" \in keplerCalled =>
        LET moonDistance ==
                Times(Times(OrZero(celestialData.moon, "semiMajorAxis"), DistanceScale),
                      InitialMoonDistanceFactor)
            apogee == Times(moonDistance,
                            Plus(Scale, OrZero(celestialData.moon, "eccentricity")))
        IN  MoonEarthDistanceSquared <= Times(Times(apogee, apogee), 1002000)

\* C23: setTimeScaleOption sets the rate to one hour, one day or one week of
\* simulated time per real second for 'hour', 'day' and 'week'; the clock is
\* constructed with one week per second; and the call changes neither the
\* time mode nor the pause flag, whatever the state.
C23_RateOfOption ==
    /\ [](op = "constructor" =>
            (currentTimeScaleOption = "week" /\ animationTimeScale = 7 * 24 * 3600 * 1000))
    /\ [][op' \in {"setTimeScaleOption", "scaleOptionClick"} =>
            /\ animationTimeScale' =
                   CASE currentTimeScaleOption' = "hour" -> 3600 * 1000
                     [] currentTimeScaleOption' = "day"  -> 24 * 3600 * 1000
                     [] currentTimeScaleOption' = "week" -> 7 * 24 * 3600 * 1000
            /\ UNCHANGED <<timeMode, isPaused>>]_vars

C23_Witness ==
    /\ op = "setTimeScaleOption"
    /\ timeMode = "animation"
    /\ isPaused
    /\ pausedTime > 0
    /\ currentTimeScaleOption = "day"
    /\ animationTimeScale = 24 * 3600 * 1000

\* C24: while the clock stays in animation mode and no rate is set, the
\* simulated instant never decreases across togglePause calls, Space keys,
\* clock advances and reads; a read returns that instant; the anchor never
\* exceeds wall-clock now and the paused offset is never negative.
C24_MonotoneInAcceleratedMode ==
    /\ [][(timeMode = "animation"
             /\ op' \in {"togglePause", "keySpace", "tick", "getSimulationTime",
                         "updateClock"})
            => /\ getSimulationTime' >= getSimulationTime
               /\ (op' = "getSimulationTime" => ret' = getSimulationTime')]_vars
    /\ [](simulationStartTime <= now /\ pausedTime >= 0)

C24_Witness ==
    /\ op = "togglePause"
    /\ timeMode = "animation"
    /\ resumed # <<>>
    /\ pausedTime > 0
    /\ now = resumed[2]
    /\ getSimulationTime > resumed[1]

----------------------------------------------------------------------------
(***************************************************************************)
(* Close view, continued.                                                  *)
(***************************************************************************)
\* The running camera animation ends in this step.
TransitionCompletes == cameraAnimation # "none" /\ cameraAnimation' = "none"

\* C26: at most one camera transition is in flight: animating is set exactly
\* while one is; while it is set no step starts another one or touches the
\* target or the saved camera state, except the step that completes the
\* transition; no enter starts in close-view mode and no exit outside it; and
\* once set, currentTarget and savedCameraState change only when an exit
\* completes, which clears them.
C26_OneTransitionAtATime ==
    /\ [](animating <=> cameraAnimation # "none")
    /\ [][ /\ animating =>
               (\/ UNCHANGED <<currentTarget, savedCameraState, cameraAnimation>>
                \/ (TransitionCompletes /\ ~animating'))
           /\ (isCloseViewMode /\ cameraAnimation' = "enter") => cameraAnimation = "enter"
           /\ (~isCloseViewMode /\ cameraAnimation' = "exit") => cameraAnimation = "exit"
           /\ (currentTarget # NoTarget /\ currentTarget' # currentTarget) =>
                (cameraAnimation = "exit" /\ TransitionCompletes /\ currentTarget' = NoTarget)
           /\ (savedCameraState # NoCameraState /\ savedCameraState' # savedCameraState) =>
                (cameraAnimation = "exit" /\ TransitionCompletes
                   /\ savedCameraState' = NoCameraState) ]_vars

C26_Witness ==
    /\ cycles = 1
    /\ cameraAnimation = "exit"
    /\ animating
    /\ isCloseViewMode
    /\ cameraProgress > 0
    /\ currentTarget = "venus"
    /\ savedCameraState = <<NoTarget, 0>>

\* C27: when an exit was started by Escape while a texture load was pending,
\* then once the exit animation and every load have finished, every body
\* carries its original material and geometry with the slots cleared, the
\* sun has its original scale, customCameraControl is false, OrbitControls is
\* enabled, and no callback has dereferenced a null currentTarget.
C27_ExitDuringLoadRestores ==
    (loadPendingAtExit /\ cycles >= 1 /\ cameraAnimation = "none" /\ ~isCloseViewMode
       /\ waiting = <<>>) =>
        /\ \A b \in Meshes :
              /\ material[b] = "original"
              /\ geometry[b] = "original"
              /\ originalMaterial[b] = NoSlot
              /\ originalGeometry[b] = NoSlot
        /\ sunScale = "original"
        /\ originalSunScale = NoSlot
        /\ ~customCameraControl
        /\ controlsEnabled
        /\ ~nullDereferenced

C29_TransitionsComplete ==
    /\ (cameraAnimation = "enter") ~> (~animating /\ isCloseViewMode)
    /\ (cameraAnimation = "exit") ~> (~animating /\ ~isCloseViewMode)

C29_Witness ==
    /\ cycles = 2
    /\ ~animating
    /\ ~isCloseViewMode
    /\ cameraAnimation = "none"
    /\ cameraProgress = 1000
    /\ animationElapsed = 0

====
